---------------------------- MODULE Spec2Model ----------------------------
(***************************************************************************)
(* A model of PythonLauncher: the configuration loader (config_loader.py), *)
(* the menu flow planner (menu_builder.py) and the launcher               *)
(* (app_launcher.py).                                                      *)
(*                                                                         *)
(* Text is modelled as sequences of one-character strings, so that         *)
(* str.lower(), str.endswith(), the `in` substring test and Python's       *)
(* code-point ordering are computed, not assumed.  A path is the sequence  *)
(* of its parts (pathlib's Path.parts); the platform is Windows, the only  *)
(* one the launcher runs on (Scripts\python.exe, cmd /K, .bat files).      *)
(***************************************************************************)
EXTENDS Naturals, Sequences, FiniteSets, TLC

VARIABLES
    fs,          \* the files and directories that exist besides FixedDirs
    cfg,         \* the AppConfig a launcher menu is being built for
    discovered,  \* what get_all_env_files() returned, if it was called
                 \* since the file system last changed
    flow,        \* what the last get_menu_flow() call returned
    flowSeen,    \* what that call saw: <<env sources, parameter sets>>
    configFiles, \* the *.json files of the config directory but master.json:
                 \* file stem -> document
    master,      \* master.json
    loaded,      \* what the last load_all_configs() call did
    launched,    \* what the last launch_app() call did
    resolver,    \* the VariableResolver object: its variables_config and
                 \* its resolved_values
    resolution,  \* what the last resolve_parameters() call did
    outcome,     \* what the last launch_app_with_config() call did
    envText,     \* the lines of the environment file chosen in the menu
    childEnv,    \* what the child's shell made of the last command file
    parsed,      \* what the last parse_env_file() call returned
    found,       \* what the last find_env_files() call returned, and the
                 \* files and directories there were when it was made
    launches,    \* how many launches the launcher process has made
    batchFiles,  \* the command files of the temporary directory: name -> text
    children,    \* the shells started by launches: the command file each
                 \* reads, how far it has read and what it has run
    heap,        \* the list objects that load_all_configs() has returned
    all_configs, \* LauncherApp.all_configs: the list object it refers to
    menu         \* the launcher menu being built by show_launcher_menu()

menuVars == <<cfg, discovered, flow, flowSeen>>
loadVars == <<configFiles, master, loaded, launched>>
sessionVars == <<resolver, resolution, outcome, envText, childEnv>>
childVars == <<launches, batchFiles, children>>
appVars == <<heap, all_configs, menu>>
processVars == <<parsed, found, launches, batchFiles, children, heap, all_configs, menu>>
vars ==
    <<fs, cfg, discovered, flow, flowSeen, configFiles, master, loaded, launched,
      resolver, resolution, outcome, envText, childEnv, parsed, found,
      launches, batchFiles, children, heap, all_configs, menu>>

\* Python's None as a string result, and an optional value as a sequence
\* of no or one element.
None == "None"
Nothing == << >>
Some(x) == << x >>

(***************************************************************************)
(* Characters and strings.                                                 *)
(***************************************************************************)
\* The characters in use, in code-point order.
Alphabet ==
    << " ", "\"", "#", "$", "%", "&", "'", "-", ".", "/",
       "0", "1", "2", "3", "4", "5", "6", "7", "8", "9",
       ":", "<", "=", ">", "@",
       "A", "B", "C", "D", "E", "F", "G", "H", "I", "J", "K", "L", "M",
       "N", "O", "P", "Q", "R", "S", "T", "U", "V", "W", "X", "Y", "Z",
       "\\", "^", "_",
       "a", "b", "c", "d", "e", "f", "g", "h", "i", "j", "k", "l", "m",
       "n", "o", "p", "q", "r", "s", "t", "u", "v", "w", "x", "y", "z",
       "|" >>

Chars == {Alphabet[i] : i \in 1..Len(Alphabet)}

\* ord(c), up to the gaps between the characters in use
OrdTable == [c \in Chars |-> CHOOSE i \in 1..Len(Alphabet) : Alphabet[i] = c]

Ord(c) == OrdTable[c]

IsUpper(c) == Ord(c) >= Ord("A") /\ Ord(c) <= Ord("Z")

LowerTable ==
    [c \in Chars |-> IF IsUpper(c) THEN Alphabet[Ord(c) + (Ord("a") - Ord("A"))] ELSE c]

\* str.lower() on one character
LowerChar(c) == LowerTable[c]

\* str.lower()
Lower(s) == [i \in 1..Len(s) |-> LowerChar(s[i])]

Min(a, b) == IF a <= b THEN a ELSE b

CharLess(a, b) == Ord(a) < Ord(b)

\* str < str: the first differing character decides; a proper prefix is
\* smaller.
StrLess(s, t) ==
    \E k \in 1..(Min(Len(s), Len(t)) + 1) :
        /\ \A i \in 1..(k - 1) : s[i] = t[i]
        /\ \/ k > Len(s) /\ k <= Len(t)
           \/ k <= Len(s) /\ k <= Len(t) /\ CharLess(s[k], t[k])

\* list < list for lists of str: the first differing string decides; a
\* proper prefix is smaller.
StrListLess(p, q) ==
    \E k \in 1..(Min(Len(p), Len(q)) + 1) :
        /\ \A i \in 1..(k - 1) : p[i] = q[i]
        /\ \/ k > Len(p) /\ k <= Len(q)
           \/ k <= Len(p) /\ k <= Len(q) /\ StrLess(p[k], q[k])

\* str.endswith(suffix)
EndsWith(s, suffix) ==
    /\ Len(s) >= Len(suffix)
    /\ SubSeq(s, Len(s) - Len(suffix) + 1, Len(s)) = suffix

\* sub in s
Contains(s, sub) ==
    \E i \in 1..(Len(s) + 1) :
        i + Len(sub) - 1 <= Len(s) /\ SubSeq(s, i, i + Len(sub) - 1) = sub

EnumerationsOf(S) ==
    {e \in [1..Cardinality(S) -> S] : \A i, j \in DOMAIN e : e[i] = e[j] => i = j}

\* sorted(seq, key=...), where less holds the pairs <<i, j>> of positions
\* with key(seq[i]) < key(seq[j]): Python's sort is stable, so an element
\* goes after every smaller one and after every earlier one that does not
\* compare greater.
SortedRank(seq, less, i) ==
    1 + Cardinality({j \in 1..Len(seq) :
            \/ << j, i >> \in less
            \/ j < i /\ << i, j >> \notin less})

Sorted(seq, less) ==
    LET rank == [i \in 1..Len(seq) |-> SortedRank(seq, less, i)]
    IN  [r \in 1..Len(seq) |-> seq[CHOOSE i \in 1..Len(seq) : rank[i] = r]]

(***************************************************************************)
(* Paths and the file system.                                              *)
(***************************************************************************)
DOTENV == << ".", "e", "n", "v" >>
DOTENVDOT == << ".", "e", "n", "v", "." >>
DOTDOT == << ".", "." >>

DRIVE == << "C", ":" >>
W == << "w" >>
ENVS == << "e", "n", "v", "s" >>
Z == << "z" >>
NOPE == << "n", "o", "p", "e" >>
A_ENV == << "a", ".", "e", "n", "v" >>
A_ENV_UPPER == << "A", ".", "E", "N", "V" >>
B_ENV_LOCAL == << "b", ".", "e", "n", "v", ".", "l", "o", "c", "a", "l" >>
NOTES_TXT == << "n", "o", "t", "e", "s", ".", "t", "x", "t" >>
ENV_STAGING_LOCAL ==
    << "e", "n", "v", ".", "s", "t", "a", "g", "i", "n", "g", ".", "l", "o", "c", "a", "l" >>
D_ENV == << "d", ".", "e", "n", "v" >>
Y_ENV_UPPER == << "Y", ".", "e", "n", "v" >>

\* The current directory of the launcher process.
Cwd == << DRIVE, W >>
EnvDir == << DRIVE, W, ENVS >>

\* Directories that exist throughout.
FixedDirs == { << DRIVE >>, Cwd, EnvDir, EnvDir \o << Z >> }

IsAbsolute(p) == Len(p) > 0 /\ p[1] = DRIVE

\* Path.name
Name(p) == IF Len(p) = 0 \/ p = << DRIVE >> THEN << >> ELSE p[Len(p)]

\* os.path.normcase on every part: Windows paths compare, hash and are
\* looked up ignoring case.
NormCase(p) == [i \in 1..Len(p) |-> Lower(p[i])]

\* Path.__lt__ on Windows: the lists of case-folded parts are compared.
PathLess(p, q) == StrListLess(NormCase(p), NormCase(q))

RECURSIVE Collapse(_)
\* ".." removes the part before it (there are no symbolic links).
Collapse(p) ==
    IF \A i \in 1..Len(p) : p[i] # DOTDOT THEN p
    ELSE LET k == CHOOSE i \in 1..Len(p) :
                    p[i] = DOTDOT /\ \A j \in 1..(i - 1) : p[j] # DOTDOT
         IN  IF k <= 2 THEN Collapse(SubSeq(p, 1, k - 1) \o SubSeq(p, k + 1, Len(p)))
             ELSE Collapse(SubSeq(p, 1, k - 2) \o SubSeq(p, k + 1, Len(p)))

\* The absolute, ".."-free spelling of p.
Absolute(p) == Collapse(IF IsAbsolute(p) THEN p ELSE Cwd \o p)

\* What exists: the fixed directories and the entries of F.  An entry is a
\* path in its on-disk spelling with the kind of thing it is.
FixedDirEntries == {[path |-> d, kind |-> "dir"] : d \in FixedDirs}

Entries(F) == F \cup FixedDirEntries

\* The entry a path names, if any: the lookup ignores case.
Stat(p, F) ==
    LET key == NormCase(Absolute(p))
    IN  {e \in Entries(F) : Len(e.path) = Len(key) /\ NormCase(e.path) = key}

\* Path.exists()
Exists(p, F) == Stat(p, F) # {}

\* Path.is_file()
IsFile(p, F) == \E e \in Stat(p, F) : e.kind = "file"

\* Path.resolve() of an existing path: absolute, in the on-disk spelling.
Resolve(p, F) ==
    IF Exists(p, F) THEN (CHOOSE e \in Stat(p, F) : TRUE).path ELSE Absolute(p)

IsPrefix(d, p) == Len(d) < Len(p) /\ SubSeq(p, 1, Len(d)) = d

\* directory.rglob("*"): everything below the directory, each spelled as
\* the directory's own spelling followed by the parts below it.
RGlob(dir, F) ==
    LET root == Resolve(dir, F)
    IN  {dir \o SubSeq(e.path, Len(root) + 1, Len(e.path)) :
            e \in {x \in Entries(F) : IsPrefix(root, x.path)}}

(***************************************************************************)
(* AppConfig (config_loader.py).                                           *)
(***************************************************************************)
\* The pattern with the infix test written without its leading dot.
MatchesEnvPattern_InfixWithoutDot(filename) ==
    \/ filename = DOTENV
    \/ EndsWith(filename, DOTENV)
    \/ Contains(filename, << "e", "n", "v", "." >>)

\* filename == ".env" or filename.endswith(".env") or ".env." in filename
MatchesEnvPattern(filename) ==
    \/ filename = DOTENV
    \/ EndsWith(filename, DOTENV)
    \/ Contains(filename, DOTENVDOT)

\* The explicit files added as they are spelled, without resolve().
ExplicitEnvFiles_Unresolved(c, F) ==
    {c.env_files[i] :
        i \in {k \in 1..Len(c.env_files) : Exists(c.env_files[k], F)}}

\* The explicitly listed env files that exist, resolved.
ExplicitEnvFiles(c, F) ==
    {Resolve(c.env_files[i], F) :
        i \in {k \in 1..Len(c.env_files) : Exists(c.env_files[k], F)}}

\* The files below env_directory whose names match, resolved.
ScannedEnvFiles(c, F) ==
    IF c.env_directory # Nothing /\ Exists(c.env_directory[1], F)
    THEN {Resolve(p, F) :
            p \in {q \in RGlob(c.env_directory[1], F) :
                      IsFile(q, F) /\ MatchesEnvPattern(Name(q))}}
    ELSE {}

\* The set env_files that get_all_env_files builds.
EnvFileSet(c, F) == ExplicitEnvFiles(c, F) \cup ScannedEnvFiles(c, F)

\* sorted(list(env_files)): Path objects are compared, and list(set) may
\* hand them to the sort in any order.
get_all_env_files(order) ==
    Sorted(order, {ij \in (1..Len(order)) \X (1..Len(order)) :
                      PathLess(order[ij[1]], order[ij[2]])})

(***************************************************************************)
(* MenuBuilder (menu_builder.py).                                          *)
(***************************************************************************)
should_show_env_menu(env_files) == Len(env_files) > 0

should_show_param_menu(c) == Len(c.parameter_sets) > 0

\* The flow with the two one-menu answers exchanged.
get_menu_flow_Exchanged(has_env, has_param) ==
    IF ~has_env /\ ~has_param THEN "direct"
    ELSE IF has_env /\ ~has_param THEN "param_only"
    ELSE IF ~has_env /\ has_param THEN "env_only"
    ELSE "env_then_param"

get_menu_flow(has_env, has_param) ==
    IF ~has_env /\ ~has_param THEN "direct"
    ELSE IF has_env /\ ~has_param THEN "env_only"
    ELSE IF ~has_env /\ has_param THEN "param_only"
    ELSE "env_then_param"

(***************************************************************************)
(* The menu of one app over a changing file system.                        *)
(***************************************************************************)
\* At most this many candidate entries exist at once.
MaxFiles == 3
\* An app has at most this many parameter sets.
MaxParamSets == 2

File(p) == [path |-> p, kind |-> "file"]
Dir(p) == [path |-> p, kind |-> "dir"]

\* The entries the user may create and delete.
Candidates ==
    { File(EnvDir \o << A_ENV >>),
      File(EnvDir \o << B_ENV_LOCAL >>),
      File(EnvDir \o << NOTES_TXT >>),
      File(EnvDir \o << ENV_STAGING_LOCAL >>),
      File(EnvDir \o << DOTENV >>),
      File(EnvDir \o << Z, A_ENV >>),
      File(Cwd \o << Y_ENV_UPPER >>),
      Dir(EnvDir \o << D_ENV >>) }

\* The env_files lists of the configs considered: none; one file under a
\* relative and an absolute spelling; a spelling through ".." in another
\* letter case and a file outside the env directory listed twice; a file
\* whose name matches no pattern.
ExplicitLists ==
    { << >>,
      << << ENVS, A_ENV >>, EnvDir \o << A_ENV >> >>,
      << << ENVS, Z, DOTDOT, A_ENV_UPPER >>, << Y_ENV_UPPER >>, << Y_ENV_UPPER >> >>,
      << EnvDir \o << NOTES_TXT >> >> }

\* The env_directory values considered: absent, absolute, relative, and a
\* directory that does not exist.
EnvDirectories == { Nothing, Some(EnvDir), Some(<< ENVS >>), Some(<< NOPE >>) }

ParamSets(n) == [i \in 1..n |-> [name |-> "set", params |-> ""]]

MenuConfig(files, dir, n) ==
    [env_files |-> files, env_directory |-> dir, parameter_sets |-> ParamSets(n)]

\* The config directory plays no part.
NoConfigDir ==
    /\ configFiles = << >>
    /\ master = [kind |-> "absent", order |-> << >>]
    /\ loaded = Nothing
    /\ launched = Nothing

\* No launch is under way: no resolver, no call, no command file.
\* Nothing has run in the launcher process yet.
NoProcess ==
    /\ parsed = Nothing
    /\ found = Nothing
    /\ launches = 0
    /\ batchFiles = [k \in {} |-> << >>]
    /\ children = << >>
    /\ heap = << >>
    /\ all_configs = Nothing
    /\ menu = Nothing

NoSession ==
    /\ NoProcess
    /\ resolver = Nothing
    /\ resolution = Nothing
    /\ outcome = Nothing
    /\ envText = << >>
    /\ childEnv = Nothing

\* The user's file manager: a file or directory appears.
CreateEntry ==
    \E e \in Candidates \ fs :
        /\ Cardinality(fs) < MaxFiles
        /\ fs' = fs \cup {e}
        /\ discovered' = Nothing
        /\ UNCHANGED <<cfg, flow, flowSeen, loadVars, sessionVars, processVars>>

\* The user's file manager: a file or directory disappears.
DeleteEntry ==
    \E e \in fs :
        /\ fs' = fs \ {e}
        /\ discovered' = Nothing
        /\ UNCHANGED <<cfg, flow, flowSeen, loadVars, sessionVars, processVars>>

\* AppConfig.get_all_env_files()
GetAllEnvFiles ==
    \E order \in EnumerationsOf(EnvFileSet(cfg, fs)) :
        /\ discovered' = Some(get_all_env_files(order))
        /\ UNCHANGED <<fs, cfg, flow, flowSeen, loadVars, sessionVars, processVars>>

\* MenuBuilder.get_menu_flow(app_config)
GetMenuFlow ==
    \E order \in EnumerationsOf(EnvFileSet(cfg, fs)) :
        LET env_files == get_all_env_files(order)
        IN  /\ flow' = get_menu_flow(should_show_env_menu(env_files),
                                     should_show_param_menu(cfg))
            /\ flowSeen' = << Len(env_files), Len(cfg.parameter_sets) >>
            /\ UNCHANGED <<fs, cfg, discovered, loadVars, sessionVars, processVars>>

InitEnv ==
    /\ fs = {}
    /\ cfg \in {MenuConfig(f, d, 0) : f \in ExplicitLists, d \in EnvDirectories}
    /\ discovered = Nothing
    /\ flow = None
    /\ flowSeen = Nothing
    /\ NoConfigDir
    /\ NoSession

NextEnv == CreateEntry \/ DeleteEntry \/ GetAllEnvFiles

\* Environment-file discovery for one app.
SpecEnv == InitEnv /\ [][NextEnv]_vars

InitFlow ==
    /\ fs = {}
    /\ cfg \in {MenuConfig(f, d, n) :
                    f \in {<< >>, << EnvDir \o << NOTES_TXT >> >>},
                    d \in {Nothing, Some(<< ENVS >>)},
                    n \in 0..MaxParamSets}
    /\ discovered = Nothing
    /\ flow = None
    /\ flowSeen = Nothing
    /\ NoConfigDir
    /\ NoSession

NextFlow == CreateEntry \/ DeleteEntry \/ GetMenuFlow

\* Flow planning for one app.
SpecFlow == InitFlow /\ [][NextFlow]_vars

(***************************************************************************)
(* find_env_files (env_parser.py), the wizard's discovery, next to         *)
(* get_all_env_files.                                                      *)
(***************************************************************************)
\* Path.suffix: the name from its last dot on, when that dot is neither
\* the first nor the last character of the name; otherwise empty.
Suffix(name) ==
    LET dots == {i \in 1..Len(name) : name[i] = "."}
        last == CHOOSE i \in dots : \A j \in dots : j <= i
    IN  IF dots = {} \/ last = 1 \/ last = Len(name) THEN << >>
        ELSE SubSeq(name, last, Len(name))

\* path.suffix == ".env" or ".env." in path.name
MatchesFindPattern(name) ==
    \/ Suffix(name) = DOTENV
    \/ Contains(name, DOTENVDOT)

\* The list env_files that find_env_files builds, as a set: empty when the
\* directory does not exist or is no directory.
FoundEnvFileSet(directory, F) ==
    IF ~Exists(directory, F) \/ IsFile(directory, F) THEN {}
    ELSE {q \in RGlob(directory, F) : IsFile(q, F) /\ MatchesFindPattern(Name(q))}

\* env_files.sort(key=lambda p: p.name.lower()) on the list in the order
\* rglob gave it
find_env_files(order) ==
    Sorted(order, {ij \in (1..Len(order)) \X (1..Len(order)) :
                      StrLess(Lower(Name(order[ij[1]])), Lower(Name(order[ij[2]])))})

\* The wizard calls find_env_files on the directory that the app's
\* env_directory names.
FindEnvFiles ==
    /\ cfg.env_directory # Nothing
    /\ \E order \in EnumerationsOf(FoundEnvFileSet(cfg.env_directory[1], fs)) :
          found' = Some([files |-> find_env_files(order), seen |-> fs])
    /\ UNCHANGED <<fs, menuVars, loadVars, sessionVars, parsed, childVars, appVars>>

InitFind ==
    /\ fs = {}
    /\ cfg \in {MenuConfig(<< >>, d, 0) : d \in {Some(EnvDir), Some(<< ENVS >>)}}
    /\ discovered = Nothing
    /\ flow = None
    /\ flowSeen = Nothing
    /\ NoConfigDir
    /\ NoSession

NextFind == CreateEntry \/ DeleteEntry \/ GetAllEnvFiles \/ FindEnvFiles

\* The two discoveries on one directory.
SpecFind == InitFind /\ [][NextFind]_vars

(***************************************************************************)
(* ConfigLoader (config_loader.py) and launch_app (app_launcher.py).       *)
(***************************************************************************)
SCRIPTS == << "S", "c", "r", "i", "p", "t", "s" >>
PYTHON_EXE == << "p", "y", "t", "h", "o", "n", ".", "e", "x", "e" >>
ACTIVATE_BAT == << "a", "c", "t", "i", "v", "a", "t", "e", ".", "b", "a", "t" >>
APP_PY == << "a", "p", "p", ".", "p", "y" >>
GONE_PY == << "g", "o", "n", "e", ".", "p", "y" >>
GOOD == << "g", "o", "o", "d" >>
HALF == << "h", "a", "l", "f" >>
BARE == << "b", "a", "r", "e" >>

\* A JSON string and a JSON value of another type.
JString(s) == [type |-> "string", val |-> s]
JNumber == [type |-> "number", val |-> << >>]

\* The text of a config file: not JSON at all, a JSON array, or a JSON
\* object with some of the keys name, script and venv.
Document(json, name, script, venv) ==
    [json |-> json, name |-> name, script |-> script, venv |-> venv]

\* AppConfig.__init__ raises: data is no dict (no .get), or Path() is
\* handed something that is no string.
InitRaises(data) ==
    \/ data.json # "object"
    \/ data.script # Nothing /\ data.script[1].type # "string"
    \/ data.venv # Nothing /\ data.venv[1].type # "string"

\* AppConfig.__init__
AppConfig(stem, data) ==
    [config_name |-> stem,
     name |-> IF data.name = Nothing THEN JString(stem) ELSE data.name[1],
     script |-> IF data.script = Nothing THEN Nothing ELSE Some(data.script[1].val),
     venv |-> IF data.venv = Nothing THEN Nothing ELSE Some(data.venv[1].val),
     env_files |-> << >>,
     env_directory |-> Nothing,
     parameter_sets |-> << >>]

\* AppConfig.validate(): the error message, None for a valid config.  A
\* Path is true whatever it holds, so only an absent field is `not`.
validate(c, F) ==
    IF c.script = Nothing THEN "Missing required field: script"
    ELSE IF ~Exists(c.script[1], F) THEN "Script not found"
    ELSE IF c.venv # Nothing /\ ~Exists(c.venv[1] \o << SCRIPTS, PYTHON_EXE >>, F)
         THEN "Invalid venv"
    ELSE None

\* The body of the loop of load_all_configs for one file: does the file
\* yield a config?
Loads(stem, files, F) ==
    /\ files[stem].json # "invalid"
    /\ ~InitRaises(files[stem])
    /\ validate(AppConfig(stem, files[stem]), F) = None

\* The dict configs after the loop: the configs that loaded, in the order
\* glob() yielded their files.
LoadedDict(globbed, files, F) ==
    LET ok(stem) == Loads(stem, files, F)
        kept == SelectSeq(globbed, ok)
    IN  [i \in 1..Len(kept) |-> AppConfig(kept[i], files[kept[i]])]

ConfigNames(configs) == {configs[i].config_name : i \in 1..Len(configs)}

Without(configs, stem) ==
    LET other(c) == c.config_name # stem
    IN  SelectSeq(configs, other)

Lookup(configs, stem) ==
    configs[CHOOSE i \in 1..Len(configs) : configs[i].config_name = stem]

RECURSIVE InCustomOrder(_, _)
\* The loop over custom_order: a listed config is appended and deleted
\* from the dict.
InCustomOrder(custom_order, configs) ==
    IF custom_order = << >> THEN << >>
    ELSE IF Head(custom_order) \in ConfigNames(configs)
         THEN << Lookup(configs, Head(custom_order)) >>
              \o InCustomOrder(Tail(custom_order), Without(configs, Head(custom_order)))
         ELSE InCustomOrder(Tail(custom_order), configs)

\* What is left in the dict after that loop, in insertion order.
NotInCustomOrder(custom_order, configs) ==
    LET left(c) == \A k \in 1..Len(custom_order) : custom_order[k] # c.config_name
    IN  SelectSeq(configs, left)

\* The key c.name.lower() of two configs compared.
NameLowerLess(c, d) == StrLess(Lower(c.name.val), Lower(d.name.val))

\* The key c.name, without lower().
NameLess(c, d) == StrLess(c.name.val, d.name.val)

\* _sort_configs with the remaining configs sorted by c.name.
sort_configs_CaseSensitive(configs, m) ==
    LET custom_order == IF m.kind = "order" THEN m.order ELSE << >>
        remaining == NotInCustomOrder(custom_order, configs)
    IN  IF m.kind = "order_not_a_list"
           \/ \E i \in 1..Len(remaining) : remaining[i].name.type # "string"
        THEN [raised |-> TRUE, configs |-> << >>]
        ELSE [raised |-> FALSE,
              configs |-> InCustomOrder(custom_order, configs)
                          \o Sorted(remaining,
                                    {ij \in (1..Len(remaining)) \X (1..Len(remaining)) :
                                        NameLess(remaining[ij[1]], remaining[ij[2]])})]

\* ConfigLoader._sort_configs: custom_order is [] unless master.json
\* parses to an object with an "order"; iterating an "order" that is no
\* list raises, and so does .lower() on a name that is no string.
sort_configs(configs, m) ==
    LET custom_order == IF m.kind = "order" THEN m.order ELSE << >>
        remaining == NotInCustomOrder(custom_order, configs)
    IN  IF m.kind = "order_not_a_list"
           \/ \E i \in 1..Len(remaining) : remaining[i].name.type # "string"
        THEN [raised |-> TRUE, configs |-> << >>]
        ELSE [raised |-> FALSE,
              configs |-> InCustomOrder(custom_order, configs)
                          \o Sorted(remaining,
                                    {ij \in (1..Len(remaining)) \X (1..Len(remaining)) :
                                        NameLowerLess(remaining[ij[1]], remaining[ij[2]])})]

\* ConfigLoader.load_all_configs: whether it raised, the list it returned,
\* and the files it warned about.
load_all_configs(globbed, files, m, F) ==
    LET sorted == sort_configs(LoadedDict(globbed, files, F), m)
    IN  [raised |-> sorted.raised,
         configs |-> sorted.configs,
         warned |-> {stem \in DOMAIN files : ~Loads(stem, files, F)}]

\* launch_app, as far as its outcome: False at the venv check, before the
\* command file is written; otherwise the command file is written and the
\* process spawned, unless the operating system refuses.
launch_app(script_path, venv_path, F, os_ok) ==
    IF venv_path # Nothing /\ ~Exists(venv_path[1] \o << SCRIPTS, ACTIVATE_BAT >>, F)
    THEN "venv_not_found"
    ELSE IF os_ok THEN "spawned" ELSE "os_error"

(***************************************************************************)
(* Loading a config directory and launching what was loaded.               *)
(***************************************************************************)
\* At most this many config files are in the directory.
MaxConfigFiles == 3

STEM_A == << "a" >>
STEM_B == << "b" >>
STEM_C == << "c" >>
STEM_D == << "d" >>
STEM_X == << "x" >>
NAME_APP == << "A", "p", "p" >>
NAME_APP_LOWER == << "a", "p", "p" >>

Stems == { STEM_A, STEM_B, STEM_C, STEM_D }

ScriptFile == Some(JString(Cwd \o << APP_PY >>))

\* Documents that load: the name defaulted, and two names that differ in
\* case alone, each with an interpreter environment.
LoadableDocuments ==
    { Document("object", Nothing, ScriptFile, Nothing),
      Document("object", Some(JString(NAME_APP)), ScriptFile,
               Some(JString(Cwd \o << GOOD >>))),
      Document("object", Some(JString(NAME_APP_LOWER)), ScriptFile,
               Some(JString(Cwd \o << HALF >>))) }

\* Documents that are malformed or unusual in one way each: no JSON, no
\* object, no script, a script that does not exist, a script that is no
\* string, a script that is a directory, an empty script, a name that is
\* no string, an interpreter environment without python.exe.
OddDocuments ==
    { Document("invalid", Nothing, Nothing, Nothing),
      Document("array", Nothing, Nothing, Nothing),
      Document("object", Some(JString(NAME_APP)), Nothing, Nothing),
      Document("object", Some(JString(NAME_APP_LOWER)),
               Some(JString(Cwd \o << GONE_PY >>)), Nothing),
      Document("object", Nothing, Some(JNumber), Nothing),
      Document("object", Some(JString(NAME_APP)), Some(JString(EnvDir)), Nothing),
      Document("object", Nothing, Some(JString(<< >>)), Nothing),
      Document("object", Some(JNumber), ScriptFile, Nothing),
      Document("object", Nothing, ScriptFile, Some(JString(Cwd \o << BARE >>))) }

\* The documents a file may hold: b.json any, the others a loadable one.
DocumentsOf(stem) ==
    IF stem = STEM_B THEN LoadableDocuments \cup OddDocuments ELSE LoadableDocuments

\* The config directories considered.
ConfigDirs ==
    UNION {{f \in [present -> LoadableDocuments \cup OddDocuments] :
                \A stem \in present : f[stem] \in DocumentsOf(stem)} :
            present \in {P \in SUBSET Stems : Cardinality(P) <= MaxConfigFiles}}

Master(kind, order) == [kind |-> kind, order |-> order]

\* master.json: absent, unreadable, with an "order" that is no list, and
\* with order lists that name unknown identities and repeat one.
Masters ==
    { Master("absent", << >>),
      Master("invalid", << >>),
      Master("order_not_a_list", << >>),
      Master("order", << STEM_C, STEM_X, STEM_A, STEM_C >>) }

\* The file system of the launcher's machine: a script, an interpreter
\* environment with python.exe and activate.bat, one with python.exe
\* alone, and one with neither.
MachineFiles ==
    { File(Cwd \o << APP_PY >>),
      Dir(Cwd \o << GOOD >>),
      File(Cwd \o << GOOD, SCRIPTS, PYTHON_EXE >>),
      File(Cwd \o << GOOD, SCRIPTS, ACTIVATE_BAT >>),
      Dir(Cwd \o << HALF >>),
      File(Cwd \o << HALF, SCRIPTS, PYTHON_EXE >>),
      Dir(Cwd \o << BARE >>) }

\* LauncherApp.reload_configs(): load_all_configs(), glob() yielding the
\* files in some order.
ReloadConfigs ==
    \E globbed \in EnumerationsOf(DOMAIN configFiles) :
        /\ loaded' = Some(load_all_configs(globbed, configFiles, master, fs))
        /\ launched' = Nothing
        /\ UNCHANGED <<fs, menuVars, configFiles, master, sessionVars, processVars>>

\* A menu item of a loaded app is chosen: launch_app() for its config.
LaunchApp ==
    /\ loaded # Nothing
    /\ \E i \in 1..Len(loaded[1].configs), os_ok \in BOOLEAN :
          LET c == loaded[1].configs[i]
          IN  launched' = Some([config_name |-> c.config_name,
                                result |-> launch_app(c.script[1], c.venv, fs, os_ok)])
    /\ UNCHANGED <<fs, menuVars, configFiles, master, loaded, sessionVars, processVars>>

InitLoad ==
    /\ fs = MachineFiles
    /\ cfg = MenuConfig(<< >>, Nothing, 0)
    /\ discovered = Nothing
    /\ flow = None
    /\ flowSeen = Nothing
    /\ configFiles \in ConfigDirs
    /\ master \in Masters
    /\ loaded = Nothing
    /\ launched = Nothing
    /\ NoSession

NextLoad == ReloadConfigs

\* Loading the config directory, again and again.
SpecLoad == InitLoad /\ [][NextLoad]_vars

InitLaunch == InitLoad /\ master.kind = "absent"

NextLaunch == ReloadConfigs \/ LaunchApp

\* Loading the config directory, and launching the loaded apps.
SpecLaunch == InitLaunch /\ [][NextLaunch]_vars

(***************************************************************************)
(* VariableResolver (variable_resolver.py).                                *)
(***************************************************************************)
\* \w of the pattern \$(\w+): letters, digits and the underscore.
WordChars ==
    {c \in Chars : \/ IsUpper(c)
                   \/ Ord(c) >= Ord("a") /\ Ord(c) <= Ord("z")
                   \/ Ord(c) >= Ord("0") /\ Ord(c) <= Ord("9")
                   \/ c = "_"}

\* The length of the longest run of word characters of s that starts at i.
WordRun(s, i) ==
    CHOOSE n \in 0..(Len(s) + 1 - i) :
        /\ \A k \in i..(i + n - 1) : s[k] \in WordChars
        /\ i + n > Len(s) \/ s[i + n] \notin WordChars

\* Where the pattern \$(\w+) matches in s: at a "$" that a word character
\* follows.  "$" is no word character, so no match starts inside another.
MatchStarts(s) == {i \in 1..Len(s) : s[i] = "$" /\ i < Len(s) /\ s[i + 1] \in WordChars}

\* The name a match at i captures.
Captured(s, i) == SubSeq(s, i + 1, i + WordRun(s, i + 1))

\* set(re.findall(pattern, params))
VariablesFound(params) == {Captured(params, i) : i \in MatchStarts(params)}

\* The dict with no key.
EmptyDict == [k \in {} |-> << >>]

\* d[k] = v
Put(d, k, v) == [n \in DOMAIN d \cup {k} |-> IF n = k THEN v ELSE d[n]]

RECURSIVE Substitute(_, _, _)
\* re.sub(pattern, replace_var, params), from position i on: a match is
\* replaced by the value resolved for its name, and stays as it is when
\* there is none; the replacement is not scanned again.
Substitute(s, i, resolved_values) ==
    IF i > Len(s) THEN << >>
    ELSE IF i \in MatchStarts(s)
         THEN LET n == WordRun(s, i + 1)
                  var_name == SubSeq(s, i + 1, i + n)
              IN  (IF var_name \in DOMAIN resolved_values
                   THEN resolved_values[var_name]
                   ELSE SubSeq(s, i, i + n))
                  \o Substitute(s, i + n + 1, resolved_values)
         ELSE << s[i] >> \o Substitute(s, i + 1, resolved_values)

\* A variable's descriptor in the app's config: its "type" and its
\* "default", each given or not.
Descriptor(type, default) == [type |-> type, default |-> default]

\* var_config.get("type", "input")
TypeOf(var_config) == IF var_config.type = Nothing THEN "input" ELSE var_config.type[1]

\* var_config.get("default", "")
DefaultOf(var_config) == IF var_config.default = Nothing THEN << >> ELSE var_config.default[1]

\* str(n) for a number of one digit
Str(n) == << Alphabet[Ord("0") + n] >>

\* _prompt_input: askstring() gives None when the dialog is cancelled and
\* the text, which may be empty, otherwise.
\*     return result if result is not None else (default if default else None)
prompt_input(default, answer) ==
    IF answer # Nothing THEN answer
    ELSE IF default # << >> THEN Some(default) ELSE Nothing

\* The picker that gives up on an empty selection whatever the default.
prompt_picker_IgnoresDefault(default, answer) ==
    LET result == IF answer = Nothing THEN << >> ELSE answer[1]
    IN  IF result # << >> THEN Some(result) ELSE Nothing

\* _prompt_file_picker and _prompt_folder_picker: the dialog gives the
\* empty string when it is cancelled.
\*     return result if result else (default if default else None)
prompt_picker(default, answer) ==
    LET result == IF answer = Nothing THEN << >> ELSE answer[1]
    IN  IF result # << >> THEN Some(result)
        ELSE IF default # << >> THEN Some(default) ELSE Nothing

\* An unknown token that cancels the resolution.
resolve_variable_UnknownCancels(variables_config, var_name, world) ==
    IF var_name \notin DOMAIN variables_config THEN Nothing
    ELSE LET var_config == variables_config[var_name]
             var_type == TypeOf(var_config)
             default == DefaultOf(var_config)
         IN  IF var_type \in {"filepicker", "folderpicker"}
             THEN prompt_picker(default, world.answers[var_name])
             ELSE IF var_type = "input" THEN prompt_input(default, world.answers[var_name])
             ELSE IF var_type = "datetime" THEN Some(world.formatted)
             ELSE IF var_type = "timestamp" THEN Some(Str(world.seconds))
             ELSE IF var_type = "clipboard"
                  THEN (IF world.clipboard = Nothing THEN Some(<< >>) ELSE world.clipboard)
             ELSE Some(default)

\* _resolve_variable: None for a cancellation, the value otherwise.  The
\* world is what the user and the machine answer during this call: the
\* dialogs' answers, strftime's text and the epoch seconds of now(), and
\* the clipboard (nothing when paste() raises).
resolve_variable(variables_config, var_name, world) ==
    IF var_name \notin DOMAIN variables_config THEN Some(<< "$" >> \o var_name)
    ELSE LET var_config == variables_config[var_name]
             var_type == TypeOf(var_config)
             default == DefaultOf(var_config)
         IN  IF var_type \in {"filepicker", "folderpicker"}
             THEN prompt_picker(default, world.answers[var_name])
             ELSE IF var_type = "input" THEN prompt_input(default, world.answers[var_name])
             ELSE IF var_type = "datetime" THEN Some(world.formatted)
             ELSE IF var_type = "timestamp" THEN Some(Str(world.seconds))
             ELSE IF var_type = "clipboard"
                  THEN (IF world.clipboard = Nothing THEN Some(<< >>) ELSE world.clipboard)
             ELSE Some(default)

\* Every variable is resolved, cached or not.
NotResolvedYet_Always(var_name, resolved_values) == TRUE

\* var_name not in self.resolved_values
NotResolvedYet(var_name, resolved_values) == var_name \notin DOMAIN resolved_values

RECURSIVE ResolveEach(_, _, _, _, _)
\* The loop of resolve_parameters over the names in the order the set
\* yields them: the values after it, the names _resolve_variable was
\* called for, and whether it ended in a cancellation.
ResolveEach(order, variables_config, resolved_values, asked, world) ==
    IF order = << >>
    THEN [resolved_values |-> resolved_values, asked |-> asked, cancelled |-> FALSE]
    ELSE IF ~NotResolvedYet(Head(order), resolved_values)
         THEN ResolveEach(Tail(order), variables_config, resolved_values, asked, world)
         ELSE LET value == resolve_variable(variables_config, Head(order), world)
              IN  IF value = Nothing
                  THEN [resolved_values |-> resolved_values,
                        asked |-> Append(asked, Head(order)),
                        cancelled |-> TRUE]
                  ELSE ResolveEach(Tail(order), variables_config,
                                   Put(resolved_values, Head(order), value[1]),
                                   Append(asked, Head(order)), world)

\* A resolver that starts with the values of the resolver made before it.
VariableResolver_KeepsValues(variables_config) ==
    [variables_config |-> variables_config,
     resolved_values |-> IF resolver = Nothing THEN EmptyDict
                         ELSE resolver[1].resolved_values]

\* VariableResolver.__init__
VariableResolver(variables_config) ==
    [variables_config |-> variables_config, resolved_values |-> EmptyDict]

\* A cancellation that also forgets what the session held.
resolve_parameters_CancelForgets(self, params, order, world) ==
    LET r == ResolveEach(order, self.variables_config, self.resolved_values, << >>, world)
    IN  [self |-> [self EXCEPT !.resolved_values =
                        IF r.cancelled THEN EmptyDict ELSE r.resolved_values],
         asked |-> r.asked,
         result |-> IF r.cancelled THEN Nothing
                    ELSE Some(Substitute(params, 1, r.resolved_values))]

\* VariableResolver.resolve_parameters: the resolver after the call, the
\* names resolved during it, and the string returned (nothing for None).
resolve_parameters(self, params, order, world) ==
    LET r == ResolveEach(order, self.variables_config, self.resolved_values, << >>, world)
    IN  [self |-> [self EXCEPT !.resolved_values = r.resolved_values],
         asked |-> r.asked,
         result |-> IF r.cancelled THEN Nothing
                    ELSE Some(Substitute(params, 1, r.resolved_values))]

\* VariableResolver.reset
reset(self) == [self EXCEPT !.resolved_values = EmptyDict]

(***************************************************************************)
(* One resolver, asked to resolve one parameter string after another.      *)
(***************************************************************************)
VAR_N == << "n" >>
VAR_MODE == << "m", "o", "d", "e" >>
VAR_U == << "u" >>
VAR_F == << "f" >>
VAR_D == << "d" >>
VAR_G == << "g" >>
VAR_T == << "t" >>
VAR_C == << "c" >>
VAR_W == << "w" >>
VAR_V == << "v" >>
VAR_K == << "k" >>
DEV == << "d", "e", "v" >>
VAL_X == << "x" >>
CLIP == << "c", "l", "i", "p" >>
NOON == << "n", "o", "o", "n" >>
LATER == << "l", "a", "t", "e", "r" >>

\* The variables of an app whose prompts are text prompts: n without a
\* default and without a "type" (which makes it an input), mode as in the
\* end-to-end scenario; u is declared nowhere.
PromptVariables ==
    [k \in {VAR_N, VAR_MODE} |->
        IF k = VAR_N THEN Descriptor(Nothing, Nothing)
        ELSE Descriptor(Some("input"), Some(DEV))]

\* The variables of an app that asks for paths: a file without a default,
\* a file with an empty one, a folder with one.
PickerVariables ==
    [k \in {VAR_F, VAR_G, VAR_D} |->
        IF k = VAR_F THEN Descriptor(Some("filepicker"), Nothing)
        ELSE IF k = VAR_G THEN Descriptor(Some("filepicker"), Some(<< >>))
        ELSE Descriptor(Some("folderpicker"), Some(DEV))]

\* The variables of an app whose values are computed: the epoch seconds,
\* the clipboard, a formatted date, and two of a type the resolver does
\* not know, one of them with a default.
ComputedVariables ==
    [k \in {VAR_T, VAR_C, VAR_K, VAR_W, VAR_V} |->
        IF k = VAR_T THEN Descriptor(Some("timestamp"), Nothing)
        ELSE IF k = VAR_C THEN Descriptor(Some("clipboard"), Nothing)
        ELSE IF k = VAR_K THEN Descriptor(Some("datetime"), Nothing)
        ELSE IF k = VAR_W THEN Descriptor(Some("weird"), Nothing)
        ELSE Descriptor(Some("weird"), Some(DEV))]

VariableConfigs == { PromptVariables, PickerVariables, ComputedVariables }

P_TWICE == << "$", "n", " ", "$", "n" >>
P_MODE == << "-", "-", "m", "o", "d", "e", "=", "$", "m", "o", "d", "e" >>
P_UNKNOWN == << "$", "u", " ", "$", "n" >>
P_PICK == << "$", "f", " ", "$", "d" >>
P_PICKED == << "$", "g" >>
P_STAMP == << "$", "t", " ", "$", "c" >>
P_DATE == << "$", "k" >>
P_WEIRD == << "$", "w", "-", "$", "v" >>
P_PLAIN == << "-", "v" >>

\* The parameter strings of each app's parameter sets.
ParamStringsOf(variables_config) ==
    IF variables_config = PromptVariables THEN { P_TWICE, P_MODE, P_UNKNOWN, P_PLAIN }
    ELSE IF variables_config = PickerVariables THEN { P_PICK, P_PICKED, P_UNKNOWN }
    ELSE { P_STAMP, P_DATE, P_WEIRD }

\* What a dialog may answer: cancelled, nothing entered, something entered.
Answers == { Nothing, Some(<< >>), Some(VAL_X) }

\* Two moments at which a call may happen.
Clocks == { [formatted |-> NOON, seconds |-> 7], [formatted |-> LATER, seconds |-> 8] }

\* The clipboard: unreadable, or holding a text.
Clipboards == { Nothing, Some(CLIP) }

\* The names of params that make a dialog appear, and whether a name of
\* params is computed from the clock or the clipboard.
Prompted(variables_config, params) ==
    {k \in VariablesFound(params) \cap DOMAIN variables_config :
        TypeOf(variables_config[k]) \in {"input", "filepicker", "folderpicker"}}

Computed(variables_config, params) ==
    {k \in VariablesFound(params) \cap DOMAIN variables_config :
        TypeOf(variables_config[k]) \in {"datetime", "timestamp", "clipboard"}}

\* What the user and the machine may answer while params is resolved: an
\* answer to every dialog that can appear, and a clock and a clipboard,
\* which are left at one value when nothing reads them.
Worlds(variables_config, params) ==
    {[answers |-> a, formatted |-> c.formatted, seconds |-> c.seconds, clipboard |-> b] :
        a \in [Prompted(variables_config, params) -> Answers],
        c \in IF Computed(variables_config, params) = {}
              THEN {[formatted |-> NOON, seconds |-> 7]} ELSE Clocks,
        b \in IF Computed(variables_config, params) = {}
              THEN {Nothing} ELSE Clipboards}

\* resolver.resolve_parameters(params) on the resolver at hand
ResolveParameters ==
    /\ resolver # Nothing
    /\ \E params \in ParamStringsOf(resolver[1].variables_config) :
          \E order \in EnumerationsOf(VariablesFound(params)), world \in Worlds(resolver[1].variables_config, params) :
              \E call \in {resolve_parameters(resolver[1], params, order, world)} :
                  /\ resolver' = Some(call.self)
                  /\ resolution' = Some([params |-> params,
                                         before |-> resolver[1].resolved_values,
                                         asked |-> call.asked,
                                         world |-> world,
                                         result |-> call.result])
    /\ UNCHANGED <<fs, menuVars, loadVars, outcome, envText, childEnv, processVars>>

\* resolver.reset()
Reset ==
    /\ resolver # Nothing
    /\ resolver' = Some(reset(resolver[1]))
    /\ resolution' = Nothing
    /\ UNCHANGED <<fs, menuVars, loadVars, outcome, envText, childEnv, processVars>>

InitResolver ==
    /\ fs = {}
    /\ cfg = MenuConfig(<< >>, Nothing, 0)
    /\ discovered = Nothing
    /\ flow = None
    /\ flowSeen = Nothing
    /\ NoConfigDir
    /\ NoProcess
    /\ resolver \in {Some(VariableResolver(v)) : v \in VariableConfigs}
    /\ resolution = Nothing
    /\ outcome = Nothing
    /\ envText = << >>
    /\ childEnv = Nothing

NextResolver == ResolveParameters \/ Reset

\* One resolver session after another on one resolver object.
SpecResolver == InitResolver /\ [][NextResolver]_vars

(***************************************************************************)
(* parse_env_file and the command file of launch_app (app_launcher.py).    *)
(***************************************************************************)
\* The first position from i on that holds no space.
SkipSpaces(s, i) ==
    CHOOSE j \in i..(Len(s) + 1) :
        /\ \A k \in i..(j - 1) : s[k] = " "
        /\ j > Len(s) \/ s[j] # " "

\* str.strip(), for the one whitespace character in use
Strip(s) ==
    LET first == SkipSpaces(s, 1)
        last == CHOOSE j \in 0..Len(s) :
                    /\ \A k \in (j + 1)..Len(s) : s[k] = " "
                    /\ j = 0 \/ s[j] # " "
    IN  SubSeq(s, first, last)

\* re.match(r'^([A-Za-z_][A-Za-z0-9_]*)\s*=\s*(.*)$', line): the two
\* groups, or nothing when the line does not match.
MatchKeyValue(line) ==
    LET n == WordRun(line, 1)
        eq == SkipSpaces(line, n + 1)
    IN  IF n = 0 \/ (Ord(line[1]) >= Ord("0") /\ Ord(line[1]) <= Ord("9")) THEN Nothing
        ELSE IF eq > Len(line) \/ line[eq] # "=" THEN Nothing
        ELSE Some([key |-> SubSeq(line, 1, n),
                   value |-> SubSeq(line, SkipSpaces(line, eq + 1), Len(line))])

StartsAndEndsWith(value, q) == Len(value) > 0 /\ value[1] = q /\ value[Len(value)] = q

\* Remove quotes if present: value[1:-1]
Unquote(value) ==
    IF StartsAndEndsWith(value, "\"") \/ StartsAndEndsWith(value, "'")
    THEN SubSeq(value, 2, Len(value) - 1)
    ELSE value

\* env_vars[key] = value on a dict kept as the sequence of its items: a
\* key that is there keeps its place and takes the value.
SetItem(env_vars, key, value) ==
    IF \E i \in 1..Len(env_vars) : env_vars[i].key = key
    THEN [i \in 1..Len(env_vars) |->
            IF env_vars[i].key = key THEN [key |-> key, value |-> value] ELSE env_vars[i]]
    ELSE Append(env_vars, [key |-> key, value |-> value])

\* What the iteration over the file meets in place of a line where the
\* read or the decoding fails: an exception.
READ_FAILS == << "Exception" >>

RECURSIVE ParseLines(_, _)
\* The loop of parse_env_file over the lines that are left.  An exception
\* of the read leaves the loop for the handler, which prints the warning;
\* the function then returns env_vars as the loop left it.
ParseLines(text, env_vars) ==
    IF text = << >> THEN env_vars
    ELSE IF Head(text) = READ_FAILS THEN env_vars
    ELSE LET line == Strip(Head(text))
             match == MatchKeyValue(line)
         IN  IF line = << >> \/ line[1] = "#" \/ match = Nothing
             THEN ParseLines(Tail(text), env_vars)
             ELSE ParseLines(Tail(text),
                             SetItem(env_vars, match[1].key, Unquote(match[1].value)))

\* parse_env_file: text is what the reads of the file deliver
parse_env_file(text) == ParseLines(text, << >>)

\* The value written as it is.
Escaped_NotAtAll(value) == value

RECURSIVE Escaped(_)
\* value.replace("%", "%%")
Escaped(value) ==
    IF value = << >> THEN << >>
    ELSE (IF Head(value) = "%" THEN << "%", "%" >> ELSE << Head(value) >>)
         \o Escaped(Tail(value))

\* f'set {key}={escaped_value}'
SetLine(key, value) == << "s", "e", "t", " " >> \o key \o << "=" >> \o Escaped(value)

\* The lines launch_app adds for the variables of one env file.
SetLines(env_vars) == [i \in 1..Len(env_vars) |-> SetLine(env_vars[i].key, env_vars[i].value)]

RECURSIVE Shlex(_, _, _, _, _, _)
\* shlex.split(s) from position i on, in POSIX mode: st is the state of
\* the scanner (between words, in a word, in double or single quotes,
\* after a backslash in a word or in double quotes), token the word read
\* so far, quoted whether it had a quote, out the words before it.  The
\* end of the text in quotes or after a backslash raises ValueError.
Shlex(s, i, st, token, quoted, out) ==
    IF i > Len(s)
    THEN IF st \in {"dq", "sq", "esc_word", "esc_dq"} THEN [ok |-> FALSE, tokens |-> out]
         ELSE IF st = "word" /\ (token # << >> \/ quoted)
              THEN [ok |-> TRUE, tokens |-> Append(out, token)]
              ELSE [ok |-> TRUE, tokens |-> out]
    ELSE LET c == s[i]
         IN  IF st = "space"
             THEN IF c = " " THEN Shlex(s, i + 1, "space", << >>, FALSE, out)
                  ELSE IF c = "\\" THEN Shlex(s, i + 1, "esc_word", << >>, FALSE, out)
                  ELSE IF c = "\"" THEN Shlex(s, i + 1, "dq", << >>, TRUE, out)
                  ELSE IF c = "'" THEN Shlex(s, i + 1, "sq", << >>, TRUE, out)
                  ELSE Shlex(s, i + 1, "word", << c >>, FALSE, out)
             ELSE IF st = "word"
             THEN IF c = " "
                  THEN Shlex(s, i + 1, "space", << >>, FALSE,
                             IF token # << >> \/ quoted THEN Append(out, token) ELSE out)
                  ELSE IF c = "\\" THEN Shlex(s, i + 1, "esc_word", token, quoted, out)
                  ELSE IF c = "\"" THEN Shlex(s, i + 1, "dq", token, TRUE, out)
                  ELSE IF c = "'" THEN Shlex(s, i + 1, "sq", token, TRUE, out)
                  ELSE Shlex(s, i + 1, "word", Append(token, c), quoted, out)
             ELSE IF st = "dq"
             THEN IF c = "\"" THEN Shlex(s, i + 1, "word", token, TRUE, out)
                  ELSE IF c = "\\" THEN Shlex(s, i + 1, "esc_dq", token, TRUE, out)
                  ELSE Shlex(s, i + 1, "dq", Append(token, c), TRUE, out)
             ELSE IF st = "sq"
             THEN IF c = "'" THEN Shlex(s, i + 1, "word", token, TRUE, out)
                  ELSE Shlex(s, i + 1, "sq", Append(token, c), TRUE, out)
             ELSE IF st = "esc_word"
             THEN Shlex(s, i + 1, "word", Append(token, c), quoted, out)
             ELSE Shlex(s, i + 1, "dq",
                        IF c = "\\" \/ c = "\"" THEN Append(token, c)
                        ELSE token \o << "\\", c >>,
                        TRUE, out)

\* shlex.split(parameters): whether it returned, and the words.
shlex_split(parameters) == Shlex(parameters, 1, "space", << >>, FALSE, << >>)

RECURSIVE Join(_, _)
\* sep.join(words)
Join(words, sep) ==
    IF words = << >> THEN << >>
    ELSE IF Len(words) = 1 THEN words[1]
    ELSE words[1] \o sep \o Join(Tail(words), sep)

\* str(path) on Windows
PathStr(p) == Join(p, << "\\" >>)

\* Path.parent
Parent(p) == IF Len(p) > 1 THEN SubSeq(p, 1, Len(p) - 1) ELSE p

Quoted(text) == << "\"" >> \o text \o << "\"" >>

ECHO_OFF == << "@", "e", "c", "h", "o", " ", "o", "f", "f" >>
CD_D == << "c", "d", " ", "/", "d", " " >>
REM_LOAD == << "R", "E", "M", " ", "L", "o", "a", "d", " ", "e", "n", "v", "i", "r", "o", "n", "m", "e", "n", "t", " ", "v", "a", "r", "i", "a", "b", "l", "e", "s", " ", "f", "r", "o", "m", " " >>
REM_ACTIVATE == << "R", "E", "M", " ", "A", "c", "t", "i", "v", "a", "t", "e", " ", "v", "i", "r", "t", "u", "a", "l", " ", "e", "n", "v", "i", "r", "o", "n", "m", "e", "n", "t" >>
CALL == << "c", "a", "l", "l", " " >>
REM_RUN == << "R", "E", "M", " ", "R", "u", "n", " ", "P", "y", "t", "h", "o", "n", " ", "s", "c", "r", "i", "p", "t" >>
PYTHON == << "p", "y", "t", "h", "o", "n", " " >>
ECHO_DOT == << "e", "c", "h", "o", "." >>
ECHO_FINISHED == << "e", "c", "h", "o", " ", "P", "r", "o", "c", "e", "s", "s", " ", "f", "i", "n", "i", "s", "h", "e", "d", ".", " ", "P", "r", "e", "s", "s", " ", "a", "n", "y", " ", "k", "e", "y", " ", "t", "o", " ", "c", "l", "o", "s", "e", ".", ".", "." >>
PAUSE == << "p", "a", "u", "s", "e", " ", ">", " ", "n", "u", "l" >>

RECURSIVE EnvLines(_, _, _)
\* The lines launch_app adds for the env files: for each file that exists
\* and yields variables, a remark, the assignments and an empty line.
\* env_files holds the files given, texts what each of them reads as.
EnvLines(env_files, texts, F) ==
    IF env_files = << >> THEN << >>
    ELSE (IF ~Exists(Head(env_files), F) \/ parse_env_file(Head(texts)) = << >>
          THEN << >>
          ELSE << REM_LOAD \o Name(Head(env_files)) >>
               \o SetLines(parse_env_file(Head(texts))) \o << << >> >>)
         \o EnvLines(Tail(env_files), Tail(texts), F)

\* The command file without the check of the activation script.
BatchLines_NoVenvCheck(script_path, parameters, venv_path, env_files, texts, working_directory, F) ==
    LET cwd == IF working_directory # Nothing THEN PathStr(working_directory[1])
               ELSE PathStr(Parent(script_path))
        head == << ECHO_OFF, << >>, CD_D \o Quoted(cwd), << >> >>
                \o EnvLines(env_files, texts, F)
        activate_script == venv_path[1] \o << SCRIPTS, ACTIVATE_BAT >>
        venv == IF venv_path = Nothing THEN << >>
                ELSE << REM_ACTIVATE, CALL \o Quoted(PathStr(activate_script)), << >> >>
        words == shlex_split(parameters)
        python == PYTHON \o Quoted(PathStr(Resolve(script_path, F)))
        tail == << << >>, ECHO_DOT, ECHO_FINISHED, PAUSE >>
    IN  IF parameters # << >> /\ ~words.ok
        THEN [failed |-> "ValueError", lines |-> << >>]
        ELSE [failed |-> "",
              lines |-> head \o venv \o << REM_RUN >>
                        \o << IF parameters # << >>
                              THEN python \o << " " >> \o Join(words.tokens, << " " >>)
                              ELSE python >>
                        \o tail]

\* launch_app up to the writing of the command file: its lines, or how
\* the building ended before: at the check of the activation script
\* (return False) or in shlex.split (ValueError).  The env files are read
\* before either.
BatchLines(script_path, parameters, venv_path, env_files, texts, working_directory, F) ==
    LET cwd == IF working_directory # Nothing THEN PathStr(working_directory[1])
               ELSE PathStr(Parent(script_path))
        head == << ECHO_OFF, << >>, CD_D \o Quoted(cwd), << >> >>
                \o EnvLines(env_files, texts, F)
        activate_script == venv_path[1] \o << SCRIPTS, ACTIVATE_BAT >>
        venv == IF venv_path = Nothing THEN << >>
                ELSE << REM_ACTIVATE, CALL \o Quoted(PathStr(activate_script)), << >> >>
        words == shlex_split(parameters)
        python == PYTHON \o Quoted(PathStr(Resolve(script_path, F)))
        tail == << << >>, ECHO_DOT, ECHO_FINISHED, PAUSE >>
    IN  IF venv_path # Nothing /\ ~Exists(activate_script, F)
        THEN [failed |-> "venv", lines |-> << >>]
        ELSE IF parameters # << >> /\ ~words.ok
        THEN [failed |-> "ValueError", lines |-> << >>]
        ELSE [failed |-> "",
              lines |-> head \o venv \o << REM_RUN >>
                        \o << IF parameters # << >>
                              THEN python \o << " " >> \o Join(words.tokens, << " " >>)
                              ELSE python >>
                        \o tail]

\* What the operating system does with the write and the spawn.
OsOutcomes == { "ok", "write_fails", "spawn_fails" }

\* launch_app in full: what it returned, the command file it wrote if it
\* wrote one, whether it spawned a process and whether it printed an
\* error.  Every exception of the body is caught and makes it return False.
launch_app_detached(script_path, parameters, venv_path, env_files, texts, working_directory, F, os) ==
    LET batch == BatchLines(script_path, parameters, venv_path, env_files, texts,
                            working_directory, F)
    IN  IF batch.failed # ""
        THEN [returned |-> FALSE, written |-> Nothing, spawned |-> FALSE, reported |-> TRUE]
        ELSE IF os = "write_fails"
        THEN [returned |-> FALSE, written |-> Nothing, spawned |-> FALSE, reported |-> TRUE]
        ELSE IF os = "spawn_fails"
        THEN [returned |-> FALSE, written |-> Some(batch.lines), spawned |-> FALSE,
              reported |-> TRUE]
        ELSE [returned |-> TRUE, written |-> Some(batch.lines), spawned |-> TRUE,
              reported |-> FALSE]

(***************************************************************************)
(* The child's shell: cmd /K runs the command file (app_launcher.py).      *)
(***************************************************************************)
\* del d[k]
Remove(d, k) == [n \in DOMAIN d \ {k} |-> d[n]]

RECURSIVE PercentPhase(_, _, _)
\* The first thing cmd does with a line of a command file, from position
\* i on: "%%" is read as one "%", "%name%" as the value of the variable
\* (nothing when there is none), and a "%" that nothing closes is dropped.
\* Variable names are looked up ignoring case.
PercentPhase(line, i, env) ==
    IF i > Len(line) THEN << >>
    ELSE IF line[i] # "%" THEN << line[i] >> \o PercentPhase(line, i + 1, env)
    ELSE IF i < Len(line) /\ line[i + 1] = "%"
         THEN << "%" >> \o PercentPhase(line, i + 2, env)
    ELSE IF \E j \in (i + 1)..Len(line) : line[j] = "%"
         THEN LET close == CHOOSE j \in (i + 1)..Len(line) :
                              line[j] = "%" /\ \A k \in (i + 1)..(j - 1) : line[k] # "%"
                  name == Lower(SubSeq(line, i + 1, close - 1))
              IN  (IF name \in DOMAIN env THEN env[name] ELSE << >>)
                  \o PercentPhase(line, close + 1, env)
         ELSE PercentPhase(line, i + 1, env)

RECURSIVE CommandPhase(_, _, _, _)
\* The second thing: the text of the line's first command.  A double
\* quote switches quoting on and off and stays in the text; outside
\* quotes a caret is dropped and protects the character after it, and
\* "&", "|", "<" and ">" end the command: stop tells which one did.
CommandPhase(line, i, quoted, text) ==
    IF i > Len(line) THEN [text |-> text, stop |-> ""]
    ELSE IF line[i] = "\"" THEN CommandPhase(line, i + 1, ~quoted, Append(text, line[i]))
    ELSE IF quoted THEN CommandPhase(line, i + 1, quoted, Append(text, line[i]))
    ELSE IF line[i] = "^"
         THEN IF i = Len(line) THEN [text |-> text, stop |-> "^"]
              ELSE CommandPhase(line, i + 2, quoted, Append(text, line[i + 1]))
    ELSE IF line[i] \in {"&", "|", "<", ">"} THEN [text |-> text, stop |-> line[i]]
    ELSE CommandPhase(line, i + 1, quoted, Append(text, line[i]))

SET == << "s", "e", "t", " " >>

\* One line of the command file run in the environment env: a set
\* command assigns what follows the first "=" to the name before it, and
\* deletes the variable when nothing follows; the left side of a pipe runs
\* in a shell of its own and assigns nothing here.  Other lines leave the
\* variables of the env file alone.  cut tells that the line did not end
\* where its text ended.
RunLine(line, shell) ==
    LET cmd == CommandPhase(PercentPhase(line, 1, shell.env), 1, FALSE, << >>)
        rest == SubSeq(cmd.text, Len(SET) + 1, Len(cmd.text))
        eq == CHOOSE j \in 1..Len(rest) : rest[j] = "=" /\ \A k \in 1..(j - 1) : rest[k] # "="
        name == Lower(SubSeq(rest, 1, eq - 1))
        value == SubSeq(rest, eq + 1, Len(rest))
    IN  IF Len(line) < Len(SET) \/ SubSeq(line, 1, Len(SET)) # SET THEN shell
        ELSE IF ~Contains(rest, << "=" >>) THEN [shell EXCEPT !.cut = shell.cut \/ cmd.stop # ""]
        ELSE [env |-> IF cmd.stop = "|" THEN shell.env
                      ELSE IF value = << >> THEN Remove(shell.env, name)
                      ELSE Put(shell.env, name, value),
              cut |-> shell.cut \/ cmd.stop # ""]

RECURSIVE RunLines(_, _)
\* The lines of the command file run one after the other.
RunLines(lines, shell) ==
    IF lines = << >> THEN shell ELSE RunLines(Tail(lines), RunLine(Head(lines), shell))

\* The command file run by the child's shell, which starts with none of
\* the env file's variables set.
RunCommandFileLines(lines) == RunLines(lines, [env |-> EmptyDict, cut |-> FALSE])

RECURSIVE Argv(_, _, _, _, _, _)
\* How the interpreter started by the python line splits its command
\* line into arguments, from position i on: spaces separate arguments
\* outside double quotes, a double quote switches quoting and is not part
\* of the argument, a backslash before a double quote makes it a plain
\* character.  started tells that an argument has begun, token is what
\* it holds so far, out the arguments before it.
Argv(s, i, started, quoted, token, out) ==
    IF i > Len(s) THEN (IF started THEN Append(out, token) ELSE out)
    ELSE IF s[i] = " " /\ ~quoted
         THEN Argv(s, i + 1, FALSE, FALSE, << >>, IF started THEN Append(out, token) ELSE out)
    ELSE IF s[i] = "\\" /\ i < Len(s) /\ s[i + 1] = "\""
         THEN Argv(s, i + 2, TRUE, quoted, Append(token, "\""), out)
    ELSE IF s[i] = "\"" THEN Argv(s, i + 1, TRUE, ~quoted, token, out)
    ELSE Argv(s, i + 1, TRUE, quoted, Append(token, s[i]), out)

\* The arguments the script is started with by the command file: those of
\* its python line, as cmd hands it on, after the interpreter's name and
\* the script's path.
ScriptArguments(lines) ==
    LET n == CHOOSE j \in 1..Len(lines) :
                 Len(lines[j]) >= Len(PYTHON) /\ SubSeq(lines[j], 1, Len(PYTHON)) = PYTHON
        cmd == CommandPhase(PercentPhase(lines[n], 1, EmptyDict), 1, FALSE, << >>)
        argv == Argv(cmd.text, 1, FALSE, FALSE, << >>, << >>)
    IN  SubSeq(argv, 3, Len(argv))

(***************************************************************************)
(* MenuBuilder.launch_app_with_config (menu_builder.py).                   *)
(***************************************************************************)
\* An app as the menu holds it: the fields of AppConfig that a launch reads.
App(stem, venv, variables, parameter_sets) ==
    [config_name |-> stem,
     script |-> Some(Cwd \o << APP_PY >>),
     venv |-> venv,
     working_directory |-> Nothing,
     variables |-> variables,
     parameter_sets |-> parameter_sets]

\* A launch that goes on with the unresolved string after a cancellation.
launch_app_with_config_IgnoresCancel(app_config, env_file, param_set, inputs, F) ==
    LET chosen == IF param_set = Nothing THEN << >> ELSE param_set[1].params
        resolves == Contains(chosen, << "$" >>)
        call == resolve_parameters(VariableResolver(app_config.variables), chosen,
                                   inputs.order, inputs.world)
        params == IF resolves /\ call.result # Nothing THEN call.result[1] ELSE chosen
        run == launch_app_detached(app_config.script[1], params, app_config.venv,
                                   IF env_file = Nothing THEN << >> ELSE << env_file[1] >>,
                                   inputs.texts, app_config.working_directory, F, inputs.os)
    IN  [call |-> IF resolves THEN Some(call) ELSE Nothing,
         parameters |-> Some(params),
         run |-> Some(run),
         called_back |-> run.returned]

\* MenuBuilder.launch_app_with_config: the resolve_parameters call it made,
\* if any, the parameters and the result of the launch_app call, if it
\* made one, and whether it called on_launch_callback.  The inputs are the
\* order the set of names is iterated in, the world's answers, what the
\* env file reads as and what the operating system does.
launch_app_with_config(app_config, env_file, param_set, inputs, F) ==
    LET chosen == IF param_set = Nothing THEN << >> ELSE param_set[1].params
        resolves == Contains(chosen, << "$" >>)
        call == resolve_parameters(VariableResolver(app_config.variables), chosen,
                                   inputs.order, inputs.world)
        params == IF resolves THEN call.result[1] ELSE chosen
        run == launch_app_detached(app_config.script[1], params, app_config.venv,
                                   IF env_file = Nothing THEN << >> ELSE << env_file[1] >>,
                                   inputs.texts, app_config.working_directory, F, inputs.os)
    IN  IF resolves /\ call.result = Nothing
        THEN [call |-> Some(call), parameters |-> Nothing, run |-> Nothing,
              called_back |-> FALSE]
        ELSE [call |-> IF resolves THEN Some(call) ELSE Nothing,
              parameters |-> Some(params),
              run |-> Some(run),
              called_back |-> run.returned]

(***************************************************************************)
(* Launches from the menu, one after the other.                            *)
(***************************************************************************)
P_OPEN == << "-", "m", " ", "\"", "a" >>
P_QUOTED == << "-", "m", " ", "\"", "a", " ", "b", "\"", " ", "c" >>
LINE_A1 == << "A", "=", "1" >>

\* The env file of the menu.
EnvFile == EnvDir \o << A_ENV >>

\* mode as another app declares it: an input without a default.
OtherVariables ==
    [k \in {VAR_MODE} |-> Descriptor(Some("input"), Nothing)]

ParamSet(params) == [name |-> "set", params |-> params]

\* The apps of the menu: two that declare a variable of the same name,
\* each with an interpreter environment that can be activated, and one
\* without variables whose environment has no activation script.
AppA ==
    App(STEM_A, Some(Cwd \o << GOOD >>), PromptVariables,
        << ParamSet(P_MODE), ParamSet(P_UNKNOWN), ParamSet(P_OPEN), ParamSet(P_QUOTED) >>)

AppB == App(STEM_B, Nothing, OtherVariables, << ParamSet(P_MODE) >>)

AppC == App(STEM_C, Some(Cwd \o << HALF >>), EmptyDict, << ParamSet(P_PLAIN) >>)

Apps == { AppA, AppB, AppC }

\* What the menu offers for an app: no parameter set or one of its own.
ParamChoices(app_config) ==
    {Nothing} \cup {Some(app_config.parameter_sets[i]) : i \in 1..Len(app_config.parameter_sets)}

ChosenParams(param_set) == IF param_set = Nothing THEN << >> ELSE param_set[1].params

\* A menu item is chosen: launch_app_with_config(app_config, env_file,
\* param_set).  The resolver it makes is kept to look at; the program
\* drops it when the call returns.
Launch(app_config, env_file, param_set) ==
    \E order \in EnumerationsOf(VariablesFound(ChosenParams(param_set))),
       world \in Worlds(app_config.variables, ChosenParams(param_set)),
       os \in OsOutcomes :
        \E done \in {launch_app_with_config(app_config, env_file, param_set,
                        [order |-> order, world |-> world, texts |-> << envText >>, os |-> os],
                        fs)} :
            /\ resolver' = IF done.call = Nothing THEN resolver ELSE Some(done.call[1].self)
            /\ resolution' = IF done.call = Nothing THEN Nothing
                             ELSE Some([params |-> ChosenParams(param_set),
                                        before |-> VariableResolver(app_config.variables).resolved_values,
                                        asked |-> done.call[1].asked,
                                        world |-> world,
                                        result |-> done.call[1].result])
            /\ outcome' = Some([app |-> app_config.config_name,
                                chosen |-> ChosenParams(param_set),
                                os |-> os,
                                earlier |-> IF resolver = Nothing THEN EmptyDict
                                            ELSE resolver[1].resolved_values,
                                parameters |-> done.parameters,
                                run |-> done.run,
                                called_back |-> done.called_back])
            /\ childEnv' = Nothing
            /\ UNCHANGED <<fs, menuVars, loadVars, envText, processVars>>

\* Any item of the menu.
LaunchFromMenu ==
    \E app_config \in Apps, env_file \in {Nothing, Some(EnvFile)} :
        \E param_set \in ParamChoices(app_config) : Launch(app_config, env_file, param_set)

InitSession ==
    /\ fs = MachineFiles \cup {File(EnvFile)}
    /\ cfg = MenuConfig(<< >>, Nothing, 0)
    /\ discovered = Nothing
    /\ flow = None
    /\ flowSeen = Nothing
    /\ NoConfigDir
    /\ NoProcess
    /\ resolver = Nothing
    /\ resolution = Nothing
    /\ outcome = Nothing
    /\ envText = << LINE_A1 >>
    /\ childEnv = Nothing

NextSession == LaunchFromMenu

\* The launches of one run of the launcher.
SpecSession == InitSession /\ [][NextSession]_vars

(***************************************************************************)
(* One launch with an environment file, and the child's shell.             *)
(***************************************************************************)
\* An environment file has at most this many lines.
MaxEnvLines == 2

L_PERCENT == << "A", "=", "5", "0", "%" >>
L_NAME == << "A", "=", "%", "B", "%" >>
L_SPACED == << " ", " ", "A", " ", "=", " ", "%", "%", " " >>
L_PLAIN == << "B", "=", "x" >>
L_QUOTED == << "B", "=", "\"", "a", " ", "b", "\"" >>
L_COMMENT == << "#", " ", "c" >>
L_AMP == << "A", "=", "x", "&", "y" >>
L_CARET == << "B", "=", "a", "^", "b" >>
L_PIPE == << "B", "=", "a", "|", "b" >>
L_GT == << "A", "=", "a", ">", "b" >>
L_QUOTE_AMP == << "B", "=", "a", "\"", "&", "%" >>

\* The lines an environment file may hold: values with percent signs,
\* a quoted value, a comment, and values with the characters cmd reads
\* as more than text.
EnvLineChoices ==
    { L_PERCENT, L_NAME, L_SPACED, L_PLAIN,
      L_QUOTED, L_COMMENT, L_AMP,
      L_CARET, L_PIPE, L_GT, L_QUOTE_AMP }

\* The environment files considered.
EnvTexts ==
    UNION {[1..n -> EnvLineChoices] : n \in 1..MaxEnvLines}

\* The item of the menu that launches app b with the environment file.
LaunchWithEnvFile == Launch(AppB, Some(EnvFile), Nothing)

\* The child's shell, started by `start "Python App" cmd /K`, runs the
\* command file that the launch wrote.
RunCommandFile ==
    /\ outcome # Nothing
    /\ outcome[1].run # Nothing
    /\ outcome[1].run[1].spawned
    /\ childEnv' = Some(RunCommandFileLines(outcome[1].run[1].written[1]))
    /\ UNCHANGED <<fs, menuVars, loadVars, resolver, resolution, outcome, envText, processVars>>

InitBatch ==
    /\ fs = MachineFiles \cup {File(EnvFile)}
    /\ cfg = MenuConfig(<< >>, Nothing, 0)
    /\ discovered = Nothing
    /\ flow = None
    /\ flowSeen = Nothing
    /\ NoConfigDir
    /\ NoProcess
    /\ resolver = Nothing
    /\ resolution = Nothing
    /\ outcome = Nothing
    /\ envText \in EnvTexts
    /\ childEnv = Nothing

NextBatch == LaunchWithEnvFile \/ RunCommandFile

\* A launch with an environment file, followed by the child's shell.
SpecBatch == InitBatch /\ [][NextBatch]_vars

(***************************************************************************)
(* One launch with an environment file whose reading may fail.             *)
(***************************************************************************)
\* The environment files considered, and the same with a read that fails
\* before the first line, between two lines or after the last.
ReadTexts ==
    UNION {[1..n -> EnvLineChoices \cup {READ_FAILS}] : n \in 1..MaxEnvLines}

InitRead ==
    /\ fs = MachineFiles \cup {File(EnvFile)}
    /\ cfg = MenuConfig(<< >>, Nothing, 0)
    /\ discovered = Nothing
    /\ flow = None
    /\ flowSeen = Nothing
    /\ NoConfigDir
    /\ NoProcess
    /\ resolver = Nothing
    /\ resolution = Nothing
    /\ outcome = Nothing
    /\ envText \in ReadTexts
    /\ childEnv = Nothing

\* A launch with an environment file that may fail to read, followed by
\* the child's shell.
SpecRead == InitRead /\ [][NextBatch]_vars

(***************************************************************************)
(* parse_env_file on one line.                                             *)
(***************************************************************************)
\* A value has at most this many characters.
MaxValueLen == 3

\* The values of the line: the two quote characters and two others, in
\* every arrangement.
QuoteValues ==
    UNION {[1..n -> {"\"", "'", "a", "#"}] : n \in 0..MaxValueLen}

\* parse_env_file(env_file_path)
ParseEnvFile ==
    /\ parsed' = Some(parse_env_file(envText))
    /\ UNCHANGED <<fs, menuVars, loadVars, sessionVars, found, childVars, appVars>>

InitParse ==
    /\ fs = MachineFiles \cup {File(EnvFile)}
    /\ cfg = MenuConfig(<< >>, Nothing, 0)
    /\ discovered = Nothing
    /\ flow = None
    /\ flowSeen = Nothing
    /\ NoConfigDir
    /\ NoProcess
    /\ resolver = Nothing
    /\ resolution = Nothing
    /\ outcome = Nothing
    /\ envText \in {<< << "A", "=" >> \o v >> : v \in QuoteValues}
    /\ childEnv = Nothing

NextParse == ParseEnvFile

\* An environment file of one line is parsed.
SpecParse == InitParse /\ [][NextParse]_vars

(***************************************************************************)
(* Launches while the children of earlier launches read their command      *)
(* files.                                                                  *)
(***************************************************************************)
\* At most this many launches are made.
MaxLaunches == 2

\* os.getpid() of the launcher, as text
PID == << "7" >>

\* Path.stem of a file name
Stem(name) == SubSeq(name, 1, Len(name) - Len(Suffix(name)))

\* f"launcher_{script_path.stem}_{os.getpid()}.bat" in the temporary
\* directory
BatchFile(script_path) ==
    << "l", "a", "u", "n", "c", "h", "e", "r", "_" >> \o Stem(Name(script_path)) \o << "_" >> \o PID \o << ".", "b", "a", "t" >>

\* '\n'.join(batch_lines)
BatchText(batch_lines) == Join(batch_lines, << "\n" >>)

\* The line of a text that starts after offset characters, and the
\* offset after it; nothing at the end of the text.
LineAt(text, offset) ==
    LET ends == {j \in (offset + 1)..(Len(text) + 1) : j > Len(text) \/ text[j] = "\n"}
        end == CHOOSE j \in ends : \A k \in ends : j <= k
    IN  IF offset >= Len(text) THEN [line |-> << >>, next |-> offset]
        ELSE [line |-> SubSeq(text, offset + 1, end - 1), next |-> end]

\* An item of the menu is chosen: launch_app writes the command file
\* under the name of the script's stem and the launcher's process, over
\* what a file of that name held, and starts a shell on it.
LaunchDetached ==
    /\ launches < MaxLaunches
    /\ launches' = launches + 1
    /\ \E app_config \in {AppA, AppB}, env_file \in {Nothing, Some(EnvFile)}, os \in OsOutcomes :
          \E run \in {launch_app_detached(app_config.script[1], << >>, app_config.venv,
                          IF env_file = Nothing THEN << >> ELSE << env_file[1] >>,
                          << envText >>, app_config.working_directory, fs, os)} :
              /\ batchFiles' = IF run.written = Nothing THEN batchFiles
                                ELSE Put(batchFiles, BatchFile(app_config.script[1]),
                                         BatchText(run.written[1]))
              /\ children' = IF ~run.spawned THEN children
                              ELSE Append(children,
                                          [file |-> BatchFile(app_config.script[1]),
                                           built |-> run.written[1],
                                           offset |-> 0,
                                           ran |-> << >>,
                                           done |-> FALSE])
    /\ UNCHANGED <<fs, menuVars, loadVars, sessionVars, parsed, found, appVars>>

\* A child's shell, started by `start "Python App" cmd /K "{batch_file}"`,
\* reads the next line of its command file, from where it stopped reading
\* in the file as it is now, and runs it; at the end of the file it is
\* done.
ChildRunsLine ==
    \E i \in 1..Len(children) :
        \E read \in {LineAt(batchFiles[children[i].file], children[i].offset)} :
            /\ ~children[i].done
            /\ children' = [children EXCEPT ![i] =
                              IF children[i].offset >= Len(batchFiles[children[i].file])
                              THEN [children[i] EXCEPT !.done = TRUE]
                              ELSE [children[i] EXCEPT !.offset = read.next,
                                                       !.ran = Append(children[i].ran, read.line)]]
            /\ UNCHANGED <<fs, menuVars, loadVars, sessionVars, parsed, found, launches, batchFiles, appVars>>

InitChildren ==
    /\ fs = MachineFiles \cup {File(EnvFile)}
    /\ cfg = MenuConfig(<< >>, Nothing, 0)
    /\ discovered = Nothing
    /\ flow = None
    /\ flowSeen = Nothing
    /\ NoConfigDir
    /\ NoProcess
    /\ resolver = Nothing
    /\ resolution = Nothing
    /\ outcome = Nothing
    /\ envText = << LINE_A1 >>
    /\ childEnv = Nothing

NextChildren == LaunchDetached \/ ChildRunsLine

\* Launches from one launcher process, and the shells they started.
SpecChildren == InitChildren /\ [][NextChildren]_vars

(***************************************************************************)
(* LauncherApp (main.py): reloading while the launcher menu is built.      *)
(* The tray thread and the window thread take turns between the steps.     *)
(***************************************************************************)
\* At most this many reloads follow the one of the constructor.
MaxReloads == 2

\* The list assigned over the elements of the list that is there.
reload_configs_InPlace(self, result) ==
    IF result.raised THEN self
    ELSE [heap |-> [self.heap EXCEPT ![self.all_configs] = result.configs],
          all_configs |-> self.all_configs]

\* LauncherApp.reload_configs, result being what load_all_configs() did:
\* the list it returned is a new object, and all_configs is made to refer
\* to it; when load_all_configs() raised nothing is assigned.
reload_configs(self, result) ==
    IF result.raised THEN self
    ELSE [heap |-> Append(self.heap, result.configs),
          all_configs |-> Len(self.heap) + 1]

\* The config file the wizard writes.
WizardDocument == Document("object", Nothing, ScriptFile, Nothing)

\* reload_configs() on the config directory as files holds it.
Reloaded(files) ==
    /\ Len(heap) < MaxReloads + 2
    /\ \E globbed \in EnumerationsOf(DOMAIN files) :
          \E self \in {reload_configs([heap |-> heap, all_configs |-> all_configs],
                                      load_all_configs(globbed, files, master, fs))} :
              /\ heap' = self.heap
              /\ all_configs' = self.all_configs

\* The "Reload Configs" item: reload_menu_action()
ReloadMenuAction ==
    /\ Reloaded(configFiles)
    /\ UNCHANGED <<fs, menuVars, loadVars, sessionVars, parsed, found, childVars, menu>>

\* AppWizard.create_config(): the wizard writes a config file that is not
\* there yet and calls on_complete_callback, which is reload_configs.
WizardCreatesConfig ==
    \E stem \in {STEM_A, STEM_B, STEM_C} \ DOMAIN configFiles :
        /\ configFiles' = Put(configFiles, stem, WizardDocument)
        /\ Reloaded(configFiles')
        /\ UNCHANGED <<fs, menuVars, master, loaded, launched, sessionVars, parsed, found,
                       childVars, menu>>

\* The user removes a config file in the config directory.
RemoveConfigFile ==
    \E stem \in DOMAIN configFiles :
        /\ configFiles' = Remove(configFiles, stem)
        /\ UNCHANGED <<fs, menuVars, master, loaded, launched, sessionVars, processVars>>

\* show_launcher_menu() up to its loop: `for app_config in
\* self.all_configs` takes the list all_configs refers to at that moment.
ShowLauncherMenu ==
    /\ menu = Nothing
    /\ menu' = Some([list |-> all_configs, at |-> 0, items |-> << >>, popped |-> 0])
    /\ UNCHANGED <<fs, menuVars, loadVars, sessionVars, parsed, found, childVars, heap,
                   all_configs>>

\* One turn of the loop: the next element of the list object, as the list
\* is now, becomes an item of the menu.
AddAppToMenu ==
    /\ menu # Nothing
    /\ menu[1].popped = 0
    /\ menu[1].at < Len(heap[menu[1].list])
    /\ menu' = Some([menu[1] EXCEPT
                        !.at = @ + 1,
                        !.items = Append(@, heap[menu[1].list][menu[1].at + 1].config_name)])
    /\ UNCHANGED <<fs, menuVars, loadVars, sessionVars, parsed, found, childVars, heap,
                   all_configs>>

\* The loop is over and the menu pops up: popped keeps how many list
\* objects there were by then.
PopupMenu ==
    /\ menu # Nothing
    /\ menu[1].popped = 0
    /\ menu[1].at >= Len(heap[menu[1].list])
    /\ menu' = Some([menu[1] EXCEPT !.popped = Len(heap)])
    /\ UNCHANGED <<fs, menuVars, loadVars, sessionVars, parsed, found, childVars, heap,
                   all_configs>>

\* LauncherApp.__init__: all_configs = [], then reload_configs() on a
\* config directory of two apps.
InitReload ==
    /\ fs = MachineFiles
    /\ cfg = MenuConfig(<< >>, Nothing, 0)
    /\ discovered = Nothing
    /\ flow = None
    /\ flowSeen = Nothing
    /\ configFiles = [stem \in {STEM_A, STEM_B} |-> WizardDocument]
    /\ master = Master("absent", << >>)
    /\ loaded = Nothing
    /\ launched = Nothing
    /\ resolver = Nothing
    /\ resolution = Nothing
    /\ outcome = Nothing
    /\ envText = << >>
    /\ childEnv = Nothing
    /\ parsed = Nothing
    /\ found = Nothing
    /\ launches = 0
    /\ batchFiles = EmptyDict
    /\ children = << >>
    /\ menu = Nothing
    /\ \E globbed \in EnumerationsOf(DOMAIN configFiles) :
          \E self \in {reload_configs([heap |-> << << >> >>, all_configs |-> 1],
                                      load_all_configs(globbed, configFiles, master, fs))} :
              /\ heap = self.heap
              /\ all_configs = self.all_configs

NextReload ==
    \/ ReloadMenuAction
    \/ WizardCreatesConfig
    \/ RemoveConfigFile
    \/ ShowLauncherMenu
    \/ AddAppToMenu
    \/ PopupMenu

\* Reloads and the building of the launcher menu, interleaved.
SpecReload == InitReload /\ [][NextReload]_vars

(***************************************************************************)
(* Loading and launching: the properties.                                  *)
(***************************************************************************)
\* The file is JSON, an object, and what validate() is documented to ask
\* for holds: a script is given and exists, and a declared interpreter
\* environment has its python.exe.
ParsesAndValidates(stem) ==
    LET data == configFiles[stem]
    IN  /\ data.json = "object"
        /\ data.script # Nothing
        /\ data.script[1].type = "string"
        /\ Exists(data.script[1].val, fs)
        /\ data.venv # Nothing =>
              /\ data.venv[1].type = "string"
              /\ Exists(data.venv[1].val \o << SCRIPTS, PYTHON_EXE >>, fs)

\* C1: whatever the config files hold, load_all_configs does not raise;
\* it returns exactly the records that parse and validate and warns about
\* every other one.  (master.json is taken to be well-formed or absent.)
C1_LoadNeverRaises ==
    (loaded # Nothing /\ master.kind # "order_not_a_list") =>
        /\ ~loaded[1].raised
        /\ ConfigNames(loaded[1].configs)
              = {stem \in DOMAIN configFiles : ParsesAndValidates(stem)}
        /\ loaded[1].warned
              = {stem \in DOMAIN configFiles : ~ParsesAndValidates(stem)}

\* The identity is on master.json's order list.
Listed(stem) ==
    master.kind = "order" /\ \E k \in 1..Len(master.order) : master.order[k] = stem

\* Where the identity first is on the order list.
FirstListed(stem) ==
    CHOOSE k \in 1..Len(master.order) :
        master.order[k] = stem /\ \A j \in 1..(k - 1) : master.order[j] # stem

\* C2: the returned sequence holds every loaded config exactly once: first
\* those on master.json's order list, in the order of the list, then the
\* others in ascending order of their case-folded display names.
C2_TwoTierOrder ==
    (loaded # Nothing /\ ~loaded[1].raised) =>
        LET cs == loaded[1].configs
        IN  /\ ConfigNames(cs) = {stem \in DOMAIN configFiles : Loads(stem, configFiles, fs)}
            /\ \A i, j \in 1..Len(cs) : cs[i].config_name = cs[j].config_name => i = j
            /\ \A i \in 1..Len(cs) : cs[i] = AppConfig(cs[i].config_name,
                                                      configFiles[cs[i].config_name])
            /\ \A i, j \in 1..Len(cs) : i < j =>
                  /\ Listed(cs[j].config_name) => Listed(cs[i].config_name)
                  /\ (Listed(cs[i].config_name) /\ Listed(cs[j].config_name))
                        => FirstListed(cs[i].config_name) < FirstListed(cs[j].config_name)
                  /\ (~Listed(cs[i].config_name) /\ ~Listed(cs[j].config_name))
                        => ~StrLess(Lower(cs[j].name.val), Lower(cs[i].name.val))

\* c and a in the order of the list, the unknown x ignored, then an
\* unlisted config.
C2_Witness ==
    /\ loaded # Nothing
    /\ ~loaded[1].raised
    /\ master.order = << STEM_C, STEM_X, STEM_A, STEM_C >>
    /\ Len(loaded[1].configs) = 3
    /\ loaded[1].configs[1].config_name = STEM_C
    /\ loaded[1].configs[2].config_name = STEM_A
    /\ ~Listed(loaded[1].configs[3].config_name)

\* C3: over the same config files and master.json, every call of
\* load_all_configs returns the same sequence, in whatever order the
\* directory yields the files.  (The files never change here.)
C3_LoadIsDeterministic ==
    [][(loaded # Nothing /\ loaded' # Nothing)
          => loaded'[1].configs = loaded[1].configs]_vars

\* C4: the script of every returned config is an existing file.
C4_ScriptIsAnExistingFile ==
    loaded # Nothing =>
        \A i \in 1..Len(loaded[1].configs) :
            /\ loaded[1].configs[i].script # Nothing
            /\ IsFile(loaded[1].configs[i].script[1], fs)

\* C5: a config that load_all_configs returned never fails to launch for
\* want of its interpreter environment's activation script.  (The files
\* never change here, so they are as they were at load time.)
C5_VenvFailsAtLoadNotAtLaunch ==
    launched # Nothing => launched[1].result # "venv_not_found"

(***************************************************************************)
(* Flow planning and environment-file discovery: the properties.           *)
(***************************************************************************)
Flows == {"direct", "env_only", "param_only", "env_then_param"}

\* C6: get_menu_flow answers by the four-way table on (some environment
\* source was discovered, some parameter set is declared), and its answer
\* is always one of the four flows.
C6_FlowTruthTable ==
    flow # None =>
        /\ flow \in Flows
        /\ (flow = "direct") <=> (flowSeen[1] = 0 /\ flowSeen[2] = 0)
        /\ (flow = "env_only") <=> (flowSeen[1] > 0 /\ flowSeen[2] = 0)
        /\ (flow = "param_only") <=> (flowSeen[1] = 0 /\ flowSeen[2] > 0)
        /\ (flow = "env_then_param") <=> (flowSeen[1] > 0 /\ flowSeen[2] > 0)

C6_Witness == flow = "env_then_param" /\ flowSeen[1] > 1 /\ flowSeen[2] > 1

\* C7: two calls of get_menu_flow for the same AppConfig return the same
\* flow, whatever happened to the files on disk between them.  (cfg never
\* changes, so every later answer must repeat the earlier one.)
C7_FlowDependsOnConfigOnly == [][flow # None => flow' = flow]_vars

\* The name of a path, case-folded.
NameKey(p) == Lower(Name(p))

\* C8: the list get_all_env_files returns is in ascending order of the
\* case-folded file names, wherever the files live.
C8_OrderedByFileName ==
    discovered # Nothing =>
        \A i, j \in 1..Len(discovered[1]) :
            i < j => ~StrLess(NameKey(discovered[1][j]), NameKey(discovered[1][i]))

\* The three-way rule, spelled on the characters of the name.
NameQualifies(n) ==
    \/ n = << ".", "e", "n", "v" >>
    \/ /\ Len(n) >= 4
       /\ n[Len(n) - 3] = "." /\ n[Len(n) - 2] = "e"
       /\ n[Len(n) - 1] = "n" /\ n[Len(n)] = "v"
    \/ \E i \in 1..Len(n) :
          /\ i + 4 <= Len(n)
          /\ n[i] = "." /\ n[i + 1] = "e" /\ n[i + 2] = "n" /\ n[i + 3] = "v"
          /\ n[i + 4] = "."

\* The config scans the env directory and lists no file explicitly.
ScansEnvDir == cfg.env_files = << >> /\ cfg.env_directory \in {Some(EnvDir), Some(<< ENVS >>)}

Returned == {discovered[1][i] : i \in 1..Len(discovered[1])}

\* The scan admits exactly the files whose names qualify.
ScanAdmitsExactly ==
    (discovered # Nothing /\ ScansEnvDir) =>
        /\ \A e \in fs :
              (e.path \in Returned) <=>
                  /\ e.kind = "file"
                  /\ IsPrefix(EnvDir, e.path)
                  /\ NameQualifies(Name(e.path))
        /\ Returned \subseteq {e.path : e \in fs}

\* a.env, b.env.local and notes.txt give [a.env, b.env.local].
ScanScenario ==
    ( /\ discovered # Nothing
      /\ ScansEnvDir
      /\ fs = { File(EnvDir \o << A_ENV >>), File(EnvDir \o << B_ENV_LOCAL >>),
                File(EnvDir \o << NOTES_TXT >>) } )
    => discovered[1] = << EnvDir \o << A_ENV >>, EnvDir \o << B_ENV_LOCAL >> >>

EnvStagingLocal == EnvDir \o << ENV_STAGING_LOCAL >>

\* C9 as stated: the three-way rule, the scenario, and env.staging.local
\* admitted by the infix rule.
C9_Original ==
    /\ ScanAdmitsExactly
    /\ ScanScenario
    /\ (discovered # Nothing /\ ScansEnvDir /\ File(EnvStagingLocal) \in fs)
          => EnvStagingLocal \in Returned

\* C9: the scan admits a file exactly when its name is .env, ends with
\* .env or contains .env.; a.env, b.env.local and notes.txt give
\* [a.env, b.env.local]; env.staging.local, which holds "env." but not
\* ".env.", is not admitted.
C9_ScanRule ==
    /\ ScanAdmitsExactly
    /\ ScanScenario
    /\ (discovered # Nothing /\ ScansEnvDir /\ File(EnvStagingLocal) \in fs)
          => EnvStagingLocal \notin Returned

C9_Witness ==
    /\ discovered # Nothing
    /\ ScansEnvDir
    /\ fs = { File(EnvDir \o << A_ENV >>), File(EnvDir \o << B_ENV_LOCAL >>),
              File(EnvStagingLocal) }
    /\ Len(discovered[1]) = 2

\* The identity of a path: its absolute spelling, case-folded.
PathKey(p) == NormCase(Absolute(p))

\* No two entries of the returned list are the same file, and every
\* explicit spelling of an existing file has exactly one entry.
NoDuplicateSources ==
    discovered # Nothing =>
        /\ \A i, j \in 1..Len(discovered[1]) :
              PathKey(discovered[1][i]) = PathKey(discovered[1][j]) => i = j
        /\ \A k \in 1..Len(cfg.env_files) :
              Exists(cfg.env_files[k], fs) =>
                  Cardinality({i \in 1..Len(discovered[1]) :
                      PathKey(discovered[1][i]) = PathKey(cfg.env_files[k])}) = 1

\* A call over the file system of the call before returns what it returned.
RepeatedDiscoveryAgrees ==
    (discovered # Nothing /\ discovered' # Nothing) => discovered' = discovered

\* C10: get_all_env_files never returns the same resolved path twice,
\* however often and under whatever spellings a file is listed or found,
\* and repeated over an unchanged file system it returns the same list.
C10_DedupAndIdempotent == []NoDuplicateSources /\ [][RepeatedDiscoveryAgrees]_vars

C10_Witness ==
    /\ discovered # Nothing
    /\ cfg.env_files = << << ENVS, A_ENV >>, EnvDir \o << A_ENV >> >>
    /\ cfg.env_directory = Some(EnvDir)
    /\ File(EnvDir \o << A_ENV >>) \in fs
    /\ File(EnvDir \o << Z, A_ENV >>) \in fs
    /\ Len(discovered[1]) = 2

(***************************************************************************)
(* Variable resolution: the properties.                                    *)
(***************************************************************************)
\* The value the session holds for a name.
Held(var_name) == resolver[1].resolved_values[var_name]

\* C11: within one resolver session a name is resolved at most once: a
\* call resolves no name twice and no name the session already holds, it
\* leaves every held value as it was, and every occurrence of the name is
\* replaced by the one held value ("$n $n" becomes the value, a space, the
\* value; "$u $n" with u undeclared becomes "$u", a space, the value).
C11_ResolvedOncePerSession ==
    resolution # Nothing =>
        LET call == resolution[1]
        IN  /\ \A i, j \in 1..Len(call.asked) : call.asked[i] = call.asked[j] => i = j
            /\ \A i \in 1..Len(call.asked) : call.asked[i] \notin DOMAIN call.before
            /\ \A k \in DOMAIN call.before :
                  k \in DOMAIN resolver[1].resolved_values /\ Held(k) = call.before[k]
            /\ (call.params = P_TWICE /\ call.result # Nothing)
                  => call.result[1] = Held(VAR_N) \o << " " >> \o Held(VAR_N)
            /\ (call.params = P_UNKNOWN /\ call.result # Nothing)
                  => call.result[1] = << "$", "u", " " >> \o Held(VAR_N)

\* "$n $n" resolved in a session that holds n already: nothing is asked.
C11_Witness ==
    /\ resolution # Nothing
    /\ resolution[1].params = P_TWICE
    /\ resolution[1].before # EmptyDict
    /\ VAR_N \in DOMAIN resolution[1].before
    /\ resolution[1].asked = << >>
    /\ resolution[1].result = Some(<< "x", " ", "x" >>)

\* The descriptor the session's app declares for a name.
DescriptorOf(k) == resolver[1].variables_config[k]

\* launch_app was called and spawned a process.
Spawned == outcome[1].run # Nothing /\ outcome[1].run[1].spawned

\* launch_app was called and wrote the command file.
Written == outcome[1].run # Nothing /\ outcome[1].run[1].written # Nothing

\* launch_app was called and printed an error.
Reported == outcome[1].run # Nothing /\ outcome[1].run[1].reported

\* C12: when the text prompt of an input variable is cancelled, the
\* resolution is cancelled whatever default the variable declares, and the
\* launch is given up: no process is spawned.  ("--mode=$mode" with mode
\* an input of default "dev" is the case at hand.)
C12_InputCancelAborts ==
    (outcome # Nothing /\ resolution # Nothing) =>
        \A i \in 1..Len(resolution[1].asked) :
            LET k == resolution[1].asked[i]
            IN  ( /\ k \in DOMAIN resolver[1].variables_config
                  /\ TypeOf(DescriptorOf(k)) = "input"
                  /\ resolution[1].world.answers[k] = Nothing )
                => resolution[1].result = Nothing /\ ~Spawned

\* C13: when the resolution for the chosen parameter set is cancelled,
\* launch_app_with_config spawns no process, writes no command file,
\* prints no error and does not call on_launch_callback; and the callback
\* is called only after launch_app returned True.
C13_CancelIsSilent ==
    outcome # Nothing =>
        /\ (resolution # Nothing /\ resolution[1].result = Nothing) =>
              /\ ~Spawned
              /\ ~Written
              /\ ~Reported
              /\ ~outcome[1].called_back
              /\ outcome[1].run = Nothing
        /\ outcome[1].called_back =>
              /\ outcome[1].run # Nothing
              /\ outcome[1].run[1].returned

\* The prompt of the app whose mode has no default was cancelled.
C13_Witness ==
    /\ outcome # Nothing
    /\ outcome[1].app = STEM_B
    /\ outcome[1].chosen = P_MODE
    /\ resolution # Nothing
    /\ resolution[1].world.answers[VAR_MODE] = Nothing
    /\ resolution[1].result = Nothing

\* A cancelled call leaves every value the session held, with its value.
CancelKeepsHeldValues ==
    (resolution' # Nothing /\ resolution'[1].result = Nothing) =>
        \A k \in DOMAIN resolver[1].resolved_values :
            /\ k \in DOMAIN resolver'[1].resolved_values
            /\ resolver'[1].resolved_values[k] = resolver[1].resolved_values[k]

\* The call after a cancelled one asks for none of the held names.
HeldValuesAreReused ==
    (resolution # Nothing /\ resolution[1].result = Nothing /\ resolution' # Nothing) =>
        \A i \in 1..Len(resolution'[1].asked) :
            resolution'[1].asked[i] \notin DOMAIN resolver[1].resolved_values

\* C14: what a session holds from an earlier, successful resolution stays
\* in it, with the same value, when a later resolution is cancelled, and
\* the resolution after that one takes it from the session without asking.
\* (A session is the life of one resolver between resets.)
C14_CancelKeepsEarlierValues ==
    [][CancelKeepsHeldValues /\ HeldValuesAreReused]_vars

\* mode was resolved by an earlier call, and "$n $n" was then cancelled.
C14_Witness ==
    /\ resolution # Nothing
    /\ resolution[1].params = P_TWICE
    /\ resolution[1].result = Nothing
    /\ VAR_MODE \in DOMAIN resolution[1].before
    /\ resolution[1].before[VAR_MODE] = VAL_X
    /\ Held(VAR_MODE) = VAL_X

\* What this launch's dialog makes of mode: the text entered, or the
\* default of the app being launched (app a declares "dev", app b none).
ModeOfThisLaunch ==
    IF resolution[1].world.answers[VAR_MODE] # Nothing
    THEN resolution[1].world.answers[VAR_MODE][1]
    ELSE IF outcome[1].app = STEM_A THEN << "d", "e", "v" >> ELSE << >>

\* C15: no value resolved during the launch of one app gets into the
\* parameters of another: every launch starts with an empty session,
\* resolves every name of its parameter string itself, and "--mode=$mode"
\* becomes what this launch's dialog gave, also when an earlier launch of
\* another app left a value for a variable of the same name.
C15_NoValueCrossesApps ==
    (outcome # Nothing /\ resolution # Nothing) =>
        /\ resolution[1].before = EmptyDict
        /\ resolution[1].result # Nothing =>
              /\ \A k \in VariablesFound(outcome[1].chosen) :
                    \E i \in 1..Len(resolution[1].asked) : resolution[1].asked[i] = k
              /\ outcome[1].parameters = resolution[1].result
        /\ (outcome[1].chosen = P_MODE /\ resolution[1].result # Nothing) =>
              outcome[1].parameters
                  = Some(<< "-", "-", "m", "o", "d", "e", "=" >> \o ModeOfThisLaunch)

\* App a was launched and left mode = "dev" (its default); app b is then
\* launched with "--mode=$mode" and x is entered.
C15_Witness ==
    /\ outcome # Nothing
    /\ outcome[1].app = STEM_B
    /\ VAR_MODE \in DOMAIN outcome[1].earlier
    /\ outcome[1].earlier[VAR_MODE] = << "d", "e", "v" >>
    /\ resolution # Nothing
    /\ resolution[1].asked = << VAR_MODE >>
    /\ outcome[1].parameters = Some(<< "-", "-", "m", "o", "d", "e", "=", "x" >>)

\* What the dialog for a name returned: the empty string when cancelled.
Selection(call, k) ==
    IF call.world.answers[k] = Nothing THEN << >> ELSE call.world.answers[k][1]

\* The declared default of a name, the empty string when there is none.
DeclaredDefault(k) ==
    IF resolver[1].variables_config[k].default = Nothing THEN << >>
    ELSE resolver[1].variables_config[k].default[1]

Pickers == { VAR_F, VAR_G, VAR_D }

\* C16: a picker's non-empty selection is the value; an empty or cancelled
\* selection gives the declared default when that is not empty, and makes
\* the whole resolution return cancelled otherwise.
C16_PickerFallsBackToDefault ==
    (resolution # Nothing /\ resolver[1].variables_config = PickerVariables) =>
        LET call == resolution[1]
        IN  \A i \in 1..Len(call.asked) :
                LET k == call.asked[i]
                IN  k \in Pickers =>
                      IF Selection(call, k) # << >>
                      THEN k \in DOMAIN resolver[1].resolved_values
                           /\ Held(k) = Selection(call, k)
                      ELSE IF DeclaredDefault(k) # << >>
                      THEN k \in DOMAIN resolver[1].resolved_values
                           /\ Held(k) = DeclaredDefault(k)
                      ELSE call.result = Nothing
                           /\ k \notin DOMAIN resolver[1].resolved_values

\* The folder dialog was cancelled and the file dialog answered: the
\* folder is the default, the file the selection.
C16_Witness ==
    /\ resolution # Nothing
    /\ resolution[1].params = P_PICK
    /\ Len(resolution[1].asked) = 2
    /\ resolution[1].world.answers[VAR_D] = Nothing
    /\ resolution[1].result = Some(<< "x", " ", "d", "e", "v" >>)

\* The names of the call that are declared with a type that prompts.
CanCancel(call) == Prompted(resolver[1].variables_config, call.params)

\* C17: a token without a descriptor and a descriptor of an unknown type
\* never cancel a resolution: only a dialog does.  The undeclared token
\* stays in the output as it is while the other tokens are replaced
\* ("$u $n" becomes "$u", a space, the value of n), and a variable of an
\* unknown type becomes its default, the empty string when it has none
\* ("$w-$v" becomes "-dev"); no dialog is shown for either.
C17_UnknownNeverCancels ==
    resolution # Nothing =>
        LET call == resolution[1]
        IN  /\ call.result = Nothing =>
                  /\ Len(call.asked) > 0
                  /\ call.asked[Len(call.asked)] \in CanCancel(call)
            /\ \A i \in 1..Len(call.asked) :
                  call.asked[i] \notin DOMAIN resolver[1].variables_config =>
                      /\ call.asked[i] \in DOMAIN resolver[1].resolved_values
                      /\ Held(call.asked[i]) = << "$" >> \o call.asked[i]
            /\ (call.params = P_UNKNOWN /\ VAR_N \in DOMAIN resolver[1].resolved_values
                    /\ VAR_U \in DOMAIN resolver[1].resolved_values)
                  => call.result = Some(<< "$", "u", " " >> \o Held(VAR_N))
            /\ call.params = P_WEIRD => call.result = Some(<< "-", "d", "e", "v" >>)

\* "$u $n" with u undeclared and x entered for n.
C17_Witness ==
    /\ resolution # Nothing
    /\ resolution[1].params = P_UNKNOWN
    /\ resolver[1].variables_config = PromptVariables
    /\ Len(resolution[1].asked) = 2
    /\ resolution[1].result = Some(<< "$", "u", " ", "x" >>)

(***************************************************************************)
(* launch_app and the command file: the properties.                        *)
(***************************************************************************)
\* The app of the last launch.
LaunchedApp == CHOOSE a \in Apps : a.config_name = outcome[1].app

\* The app declares an interpreter environment that has no activate.bat.
ActivationMissing ==
    /\ LaunchedApp.venv # Nothing
    /\ ~IsFile(LaunchedApp.venv[1] \o << SCRIPTS, ACTIVATE_BAT >>, fs)

\* The parameters hold a double quote that nothing closes (they hold no
\* single quote and no backslash here).
Untokenisable ==
    LET text == outcome[1].parameters[1]
    IN  Cardinality({i \in 1..Len(text) : text[i] = "\""}) % 2 = 1

\* C18: launch_app always returns, and when it returns False it has
\* spawned no process: with the activation script of a declared
\* interpreter environment missing it has not written the command file
\* either, nor with parameters that cannot be tokenised; an error of the
\* operating system at the write or at the spawn gives False as well.  It
\* returns True exactly when it spawned.
C18_FailureSpawnsNothing ==
    (outcome # Nothing /\ outcome[1].run # Nothing) =>
        LET run == outcome[1].run[1]
        IN  /\ run.returned \in BOOLEAN
            /\ run.returned <=> run.spawned
            /\ ~run.returned => run.reported
            /\ ActivationMissing =>
                  ~run.returned /\ run.written = Nothing /\ ~run.spawned
            /\ Untokenisable =>
                  ~run.returned /\ run.written = Nothing /\ ~run.spawned
            /\ outcome[1].os # "ok" => ~run.returned /\ ~run.spawned
            /\ (~ActivationMissing /\ ~Untokenisable /\ outcome[1].os = "ok") => run.returned

\* The app whose environment has python.exe but no activate.bat, with an
\* operating system that would have done everything.
C18_Witness ==
    /\ outcome # Nothing
    /\ outcome[1].app = STEM_C
    /\ outcome[1].os = "ok"
    /\ outcome[1].run # Nothing
    /\ ~outcome[1].run[1].returned
    /\ outcome[1].run[1].written = Nothing

\* What each line of an environment file says, written out by hand: the
\* key and the value, or nothing for a comment.
Meaning(line) ==
    IF line = L_PERCENT THEN Some([key |-> << "A" >>, value |-> << "5", "0", "%" >>])
    ELSE IF line = L_NAME THEN Some([key |-> << "A" >>, value |-> << "%", "B", "%" >>])
    ELSE IF line = L_SPACED THEN Some([key |-> << "A" >>, value |-> << "%", "%" >>])
    ELSE IF line = L_PLAIN THEN Some([key |-> << "B" >>, value |-> << "x" >>])
    ELSE IF line = L_QUOTED THEN Some([key |-> << "B" >>, value |-> << "a", " ", "b" >>])
    ELSE IF line = L_COMMENT THEN Nothing
    ELSE IF line = L_AMP THEN Some([key |-> << "A" >>, value |-> << "x", "&", "y" >>])
    ELSE IF line = L_CARET THEN Some([key |-> << "B" >>, value |-> << "a", "^", "b" >>])
    ELSE IF line = L_PIPE THEN Some([key |-> << "B" >>, value |-> << "a", "|", "b" >>])
    ELSE IF line = L_GT THEN Some([key |-> << "A" >>, value |-> << "a", ">", "b" >>])
    ELSE IF line = L_QUOTE_AMP THEN Some([key |-> << "B" >>, value |-> << "a", "\"", "&", "%" >>])
    ELSE Nothing

KEY_A == << "A" >>
KEY_B == << "B" >>

\* The keys the environment file assigns.
KeysOfFile ==
    {k \in {KEY_A, KEY_B} :
        \E i \in 1..Len(envText) : Meaning(envText[i]) # Nothing /\ Meaning(envText[i])[1].key = k}

\* The value of a key in the file: that of the last line that assigns it.
FileValue(k) ==
    LET last == CHOOSE i \in 1..Len(envText) :
                    /\ Meaning(envText[i]) # Nothing /\ Meaning(envText[i])[1].key = k
                    /\ \A j \in (i + 1)..Len(envText) :
                          Meaning(envText[j]) = Nothing \/ Meaning(envText[j])[1].key # k
    IN  Meaning(envText[last])[1].value

\* The value the child finds for a key, if it finds one.
ChildValue(k) ==
    IF Lower(k) \in DOMAIN childEnv[1].env THEN Some(childEnv[1].env[Lower(k)]) ELSE Nothing

\* The lines of the command file that assign a key.
AssignmentsOf(k) ==
    LET written == outcome[1].run[1].written[1]
        prefix == << "s", "e", "t", " " >> \o k \o << "=" >>
    IN  {i \in 1..Len(written) :
            Len(written[i]) >= Len(prefix) /\ SubSeq(written[i], 1, Len(prefix)) = prefix}

\* The value holds none of the characters that cmd reads as more than
\* text once the percent signs are dealt with.
PlainBesidesPercent(value) ==
    \A i \in 1..Len(value) : value[i] \notin {"&", "|", "<", ">", "^", "\""}

C20_ValuesSurviveTheShell ==
    childEnv # Nothing =>
        /\ ~childEnv[1].cut
        /\ \A k \in KeysOfFile : ChildValue(k) = Some(FileValue(k))

\* The reading of the environment file failed at some point.
ReadFailed == \E i \in 1..Len(envText) : envText[i] = READ_FAILS

\* C21: when the reading of the environment file fails, before the first
\* line or part-way through, the launch goes on (parse_env_file did not
\* raise) and the file contributes no variable to it: the command file
\* holds no assignment.
C21_FailedReadContributesNothing ==
    (outcome # Nothing /\ ReadFailed) =>
        /\ outcome[1].run # Nothing
        /\ outcome[1].os = "ok" => outcome[1].run[1].returned
        /\ Written => \A k \in {KEY_A, KEY_B} : AssignmentsOf(k) = {}

\* The value of the one line of the file, as written after `A=`.
WrittenValue == SubSeq(envText[1], 3, Len(envText[1]))

\* The value is enclosed in a matching pair of quotes: two distinct
\* characters, the first and the last, that are the same quote character.
Enclosed(value) ==
    /\ Len(value) >= 2
    /\ value[1] \in {"\"", "'"}
    /\ value[Len(value)] = value[1]

\* C22: the value parse_env_file returns for the line is the written one
\* without its first and last character when it is enclosed in a matching
\* pair of quotes, and the written one unchanged in every other case,
\* mismatched quotes and a single quote character included.
C22_StripsOneMatchingPair ==
    parsed # Nothing =>
        parsed[1] = << [key |-> KEY_A,
                        value |-> IF Enclosed(WrittenValue)
                                  THEN SubSeq(WrittenValue, 2, Len(WrittenValue) - 1)
                                  ELSE WrittenValue] >>

\* C23: the script is started with the arguments that the quote-respecting
\* tokenisation of the resolved parameter string gives: as many, and
\* each with the same content.
C23_ArgumentBoundariesKept ==
    (outcome # Nothing /\ Written) =>
        ScriptArguments(outcome[1].run[1].written[1])
            = shlex_split(outcome[1].parameters[1]).tokens

\* C25: on the same directory and the same files, find_env_files and the
\* directory scan of get_all_env_files admit the same files, one named
\* `.env` included.
C25_DiscoveriesAdmitTheSameNames ==
    (discovered # Nothing /\ found # Nothing /\ found[1].seen = fs) =>
        {PathKey(found[1].files[i]) : i \in 1..Len(found[1].files)}
            = {PathKey(p) : p \in Returned}

\* C26: a resolve_parameters call that is cancelled leaves the resolver
\* holding exactly the values it held before the call, whichever token
\* the cancellation came at.
C26_CancelledCallLeavesCache ==
    (resolution # Nothing /\ resolution[1].result = Nothing) =>
        resolver[1].resolved_values = resolution[1].before

\* C24: whatever launches are made while it runs, each child runs the
\* lines that were built for its own launch: what it has run so far are
\* the first of those lines, and all of them once it is done.
C24_EachChildRunsItsOwnLines ==
    \A i \in 1..Len(children) :
        /\ Len(children[i].ran) <= Len(children[i].built)
        /\ children[i].ran = SubSeq(children[i].built, 1, Len(children[i].ran))
        /\ children[i].done => children[i].ran = children[i].built

\* The identities of the apps of a list.
AppsOf(list) == [i \in 1..Len(list) |-> list[i].config_name]

\* The menu that popped up holds the apps of one list: the one
\* all_configs referred to when the building began or one it referred to
\* later.
MenuIsOfOneList ==
    (menu # Nothing /\ menu[1].popped > 0) =>
        \E k \in menu[1].list..Len(heap) : menu[1].items = AppsOf(heap[k])

\* A list object keeps its elements whatever step is taken.
ListsAreNeverChanged == \A k \in DOMAIN heap : heap'[k] = heap[k]

\* C27: a launcher menu whose building is interleaved with reloads holds
\* the apps of the old list or those of the new list, never some of each,
\* and no step changes a list object in place: a reload makes all_configs
\* refer to a new list.
C27_ReloadReplacesTheList == []MenuIsOfOneList /\ [][ListsAreNeverChanged]_vars

\* A menu of two apps popped up after two lists were made while it was
\* built, the last of them different from the one it was built from.
C27_Witness ==
    /\ menu # Nothing
    /\ menu[1].popped >= menu[1].list + 2
    /\ Len(menu[1].items) = 2
    /\ heap[menu[1].popped] # heap[menu[1].list]
    /\ all_configs = Len(heap)

=============================================================================
